---- MODULE Spec2Model ----
(***************************************************************************)
(* Thermal simulation and predictive HVAC control of the weather-app       *)
(* backend (hvac_simulation/hvac_physics.py) and the COP functions of      *)
(* model/model.py.                                                         *)
(*                                                                         *)
(* Python floats are carried as fixed-point integers.  The unit of every   *)
(* quantity is stated where it is defined:                                 *)
(*   temperatures        1e-2 degC   (the code rounds them to 2 decimals)  *)
(*   areas               1e-4 m2 or 1e-2 m2                                *)
(*   heat flows          1e-1 W                                            *)
(*   electrical power    1e-3 W, returned rounded to 1e-2 W                *)
(*   energy              1e-4 kWh    (the code rounds it to 4 decimals)    *)
(*   money               1e-7 $, entries rounded to cents                  *)
(*   thermal mass        J/K (exact)                                       *)
(* round() is round-half-to-even, as in Python.                            *)
(***************************************************************************)
EXTENDS Integers, Sequences, FiniteSets, TLC

(***************************************************************************)
(* Arithmetic helpers                                                      *)
(***************************************************************************)
Abs(x) == IF x < 0 THEN -x ELSE x
Min(a, b) == IF a <= b THEN a ELSE b
Max(a, b) == IF a >= b THEN a ELSE b

\* round(n / d) for d > 0, ties to even
RoundDiv(n, d) ==
    LET q == n \div d
        r == n % d
    IN  IF 2 * r < d THEN q
        ELSE IF 2 * r > d THEN q + 1
        ELSE IF q % 2 = 0 THEN q ELSE q + 1

RECURSIVE Pow10(_)
Pow10(k) == IF k = 0 THEN 1 ELSE 10 * Pow10(k - 1)

\* round(n * 10^k / d) for d > 0, by long division (no wide intermediate)
RECURSIVE DivScaled(_, _, _)
DivScaled(n, d, k) ==
    IF k = 0 THEN RoundDiv(n, d)
    ELSE (n \div d) * Pow10(k) + DivScaled((n % d) * 10, d, k - 1)

\* floor(sqrt(n)), Newton iteration
RECURSIVE SqrtIter(_, _)
SqrtIter(n, x) ==
    LET y == (x + n \div x) \div 2
    IN  IF y >= x THEN x ELSE SqrtIter(n, y)

ISqrt(n) == IF n <= 0 THEN 0 ELSE SqrtIter(n, n)

\* dict.get(key, default)
Get(d, key, default) == IF key \in DOMAIN d THEN d[key] ELSE default

(***************************************************************************)
(* Property tables (hvac_physics.py, module level)                         *)
(***************************************************************************)
InsulationKeys == {"poor", "average", "excellent"}

\* W/m2K, 1e-3
U_VALUES == [poor |-> 1200, average |-> 500, excellent |-> 150]
\* m2K/W, 1e-1
R_VALUES == [poor |-> 20, average |-> 50, excellent |-> 100]
\* 1e-2
SHGC_VALUES == [poor |-> 80, average |-> 50, excellent |-> 25]
\* 1/h, 1e-3
ACH_BASE == [poor |-> 1000, average |-> 400, excellent |-> 100]
\* 1e-3
KW_VALUES == [poor |-> 40, average |-> 20, excellent |-> 5]
\* J/K per 1e-4 m2 (50000, 80000, 120000 J/K per m2)
THERMAL_MASS_PER_M2 == [poor |-> 5, average |-> 8, excellent |-> 12]
\* W per % humidity
KH_VALUES == [small |-> 65, medium |-> 150, large |-> 300]
\* 1e-2
HVAC_COP_BASE ==
    [central_ac |-> 350, heat_pump |-> 400, window_unit |-> 250,
     mini_split |-> 450, furnace |-> 95]

\* TABLE.get(insulation, TABLE["average"])
ByInsulation(table, insulation) ==
    IF insulation \in InsulationKeys THEN table[insulation] ELSE table["average"]

(***************************************************************************)
(* HouseProperties.from_house_data                                         *)
(*   floor_area_m2, window_area_m2 : 1e-4 m2                               *)
(*   volume_m3 : 1e-2 m3, surface_area_m2 : 1e-2 m2                        *)
(*   u_value, ach_base, kw : 1e-3; r_value : 1e-1; shgc : 1e-2             *)
(*   thermal_mass : J/K                                                    *)
(* house_data is a dict: a function whose domain is the keys present.      *)
(* home_size is in sqft (integer), age_of_house in years.                  *)
(***************************************************************************)
HouseProperties_from_house_data(house_data) ==
    LET home_size_sqft == Get(house_data, "home_size", 1500)
        insulation     == Get(house_data, "insulation_quality", "average")
        age            == Get(house_data, "age_of_house", 20)
        floor_area     == RoundDiv(home_size_sqft * 92903, 100)
        \* side_length in 1e-3 m
        side_length    == ISqrt(floor_area * 100)
        \* wall_area = 4 * side_length * 2.7
        wall_area      == 108 * side_length
        \* age_factor, 1e-2: 1.0 + min(age / 50.0, 0.5)
        age_factor     == 100 + Min(2 * age, 50)
    IN  [floor_area_m2   |-> floor_area,
         volume_m3       |-> RoundDiv(floor_area * 27, 1000),
         surface_area_m2 |-> RoundDiv(floor_area + wall_area, 100),
         window_area_m2  |-> RoundDiv(floor_area * 15, 100),
         u_value         |-> RoundDiv(ByInsulation(U_VALUES, insulation) * age_factor, 100),
         r_value         |-> ByInsulation(R_VALUES, insulation),
         shgc            |-> ByInsulation(SHGC_VALUES, insulation),
         ach_base        |-> RoundDiv(ByInsulation(ACH_BASE, insulation) * age_factor, 100),
         kw              |-> ByInsulation(KW_VALUES, insulation),
         thermal_mass    |-> ByInsulation(THERMAL_MASS_PER_M2, insulation) * floor_area,
         kh              |-> IF home_size_sqft < 1000 THEN KH_VALUES["small"]
                             ELSE IF home_size_sqft < 2500 THEN KH_VALUES["medium"]
                             ELSE KH_VALUES["large"]]

(***************************************************************************)
(* HVACSystem.from_house_data                                              *)
(*   capacity_*_w : 1e-2 W  (home_size * 20 * 0.293 W)                     *)
(*   int(house_data.get("hvac_age", 10) or 10): a stored 0 becomes 10      *)
(***************************************************************************)
HVACSystem_from_house_data(house_data) ==
    LET raw_age   == Get(house_data, "hvac_age", 10)
        home_size == Get(house_data, "home_size", 1500)
        capacity  == home_size * 586
    IN  [hvac_type          |-> Get(house_data, "hvac_type", "central_ac"),
         hvac_age           |-> IF raw_age = 0 THEN 10 ELSE raw_age,
         capacity_heating_w |-> capacity,
         capacity_cooling_w |-> capacity]

\* HVAC_COP_BASE.get(hvac_type, 3.0), 1e-2
CopBase(hvac_type) ==
    IF hvac_type \in DOMAIN HVAC_COP_BASE THEN HVAC_COP_BASE[hvac_type] ELSE 300

\* HVACSystem.get_cop_cooling, 1e-6; outdoor_temp_c in 1e-2 degC
get_cop_cooling(hvac, outdoor_temp_c) ==
    LET base_cop    == CopBase(hvac.hvac_type)
        age_factor  == Max(60, 100 - 2 * hvac.hvac_age)
        temp_factor == IF outdoor_temp_c > 3500
                       THEN Max(5000, 10000 - 2 * (outdoor_temp_c - 3500))
                       ELSE 10000
    IN  RoundDiv(base_cop * age_factor * temp_factor, 100)

\* HVACSystem.get_cop_heating, 1e-6
get_cop_heating(hvac, outdoor_temp_c) ==
    IF hvac.hvac_type = "furnace"
    THEN HVAC_COP_BASE["furnace"] * Max(60, 100 - hvac.hvac_age) * 100
    ELSE LET base_cop    == CopBase(hvac.hvac_type)
             age_factor  == Max(60, 100 - 2 * hvac.hvac_age)
             temp_factor == IF outdoor_temp_c < 0
                            THEN Max(3000, 10000 - 3 * Abs(outdoor_temp_c))
                            ELSE 10000
         IN  RoundDiv(base_cop * age_factor * temp_factor, 100)

(***************************************************************************)
(* WeatherConditions                                                       *)
(*   temp_outdoor_c : 1e-2 degC; humidity : %; solar_radiation : W/m2;     *)
(*   windspeed : m/s; rain : 1e-1 mm; snowfall : 1e-1 cm                   *)
(* The timestamp is not read by the physics and is left out.               *)
(***************************************************************************)
WeatherConditions(temp, humidity, solar, wind, rain, snowfall) ==
    [temp_outdoor_c |-> temp, humidity |-> humidity, solar_radiation |-> solar,
     windspeed |-> wind, rain |-> rain, snowfall |-> snowfall]

\* WeatherConditions.from_weather_row: row.get(key, default) per field
from_weather_row(row) ==
    WeatherConditions(Get(row, "temperature_2m", 2000),
                      Get(row, "humidity_2m", 50),
                      Get(row, "solar_radiation", 0),
                      Get(row, "windspeed_10m", 0),
                      Get(row, "rain", 0),
                      Get(row, "snowfall", 0))

\* WeatherConditions(timestamp=now, temp_outdoor_c=20): the dataclass defaults
DefaultWeather == WeatherConditions(2000, 50, 0, 0, 0, 0)

is_raining(weather) == weather.rain > 1
is_snowing(weather) == weather.snowfall > 1

\* wet_bulb_temp_c (Stull), 1e-2 degC.  The arctangents are tabulated at
\* relative humidity 50 %: Tw = T * atan(0.151977 * sqrt(RH + 8.313659))
\* + atan(T + RH) - atan(RH - 1.676331) + 0.00391838 * RH^1.5 *
\* atan(0.023101 * RH) - 4.686035; at RH = 50 the first factor is 0.85968
\* and the rest is between -3.4978 (T = 0) and -3.4937 (T = 40).
wet_bulb_temp_c(weather) ==
    LET T == weather.temp_outdoor_c
    IN  RoundDiv(T * 8597, 10000) + (IF T < 1000 THEN -350 ELSE -349)

(***************************************************************************)
(* Heat flows, 1e-1 W                                                      *)
(***************************************************************************)
calc_q_conductive(house, weather, indoor_temp_c) ==
    LET t_boundary == IF is_raining(weather) THEN wet_bulb_temp_c(weather)
                      ELSE weather.temp_outdoor_c
        \* r_total = r_value + snowfall * 0.1, 1e-2 m2K/W
        r_total    == house.r_value * 10 + weather.snowfall
        u_eff      == IF is_snowing(weather)
                      THEN (IF r_total > 0 THEN RoundDiv(100000, r_total)
                            ELSE house.u_value)
                      ELSE house.u_value
        \* u_eff * surface, 1e-2 W/K
        ua         == RoundDiv(u_eff * house.surface_area_m2, 1000)
    IN  RoundDiv(ua * (t_boundary - indoor_temp_c), 1000)

calc_q_wind(house, weather, indoor_temp_c) ==
    LET ach  == house.ach_base + house.kw * weather.windspeed
        \* volume * ach, 1e-2 m3/h
        flow == RoundDiv(house.volume_m3 * ach, 1000)
        \* AIR_DENSITY * AIR_SPECIFIC_HEAT / 3600 = 1.2 * 1005 / 3600 = 0.335;
        \* conductance in 1e-2 W/K
        g    == RoundDiv(flow * 335, 1000)
    IN  RoundDiv(g * (weather.temp_outdoor_c - indoor_temp_c), 1000)

calc_q_solar(house, weather) ==
    LET \* twice the solar radiation used: solar *= 0.5 under > 5 cm of snow
        solar2 == IF weather.snowfall > 50 THEN weather.solar_radiation
                  ELSE 2 * weather.solar_radiation
        \* window_area * shgc, 1e-3 m2
        aperture == RoundDiv(house.window_area_m2 * house.shgc, 1000)
    IN  Max(0, RoundDiv(aperture * solar2, 200))

\* output_fraction without the cap at 90%
OutputFraction_uncapped(diff, deadband) ==
    IF diff <= 0 THEN 50
    ELSE IF diff <= deadband THEN 100
    ELSE IF diff <= 100 THEN 200 + (diff - deadband) * 2
    ELSE IF diff <= 200 THEN 400 + (diff - 100) * 3
    ELSE 700 + (diff - 200)

\* output_fraction of calc_q_hvac, 1e-3; diff = distance from target on the
\* side the mode works against (1e-2 K), deadband in 1e-2 K
OutputFraction(diff, deadband) ==
    IF diff <= 0 THEN 50
    ELSE IF diff <= deadband THEN 100
    ELSE IF diff <= 100 THEN 200 + (diff - deadband) * 2
    ELSE IF diff <= 200 THEN 400 + (diff - 100) * 3
    ELSE Min(900, 700 + (diff - 200))

HeatModes == {"heat", "pre-heat"}
CoolModes == {"cool", "pre-cool"}
Modes == {"off"} \cup HeatModes \cup CoolModes

\* power_draw = q_hvac / cop if cop > 0 else q_hvac  (q : 1e-1 W, cop : 1e-6)
HvacOutput(q_hvac, cop) ==
    [q |-> q_hvac,
     power |-> IF cop > 0 THEN DivScaled(Abs(q_hvac) * 100, cop, 6)
               ELSE Abs(q_hvac) * 100]

\* faulty variant of calc_q_hvac: the cooling branch injects heat instead of
\* removing it (sign of q_hvac lost)
calc_q_hvac_unsigned(hvac, mode, indoor_temp_c, target_temp_c, outdoor_temp_c) ==
    LET deadband  == 30
        temp_diff == target_temp_c - indoor_temp_c
        none      == [q |-> 0, power |-> 0]
    IN  IF mode = "off" THEN none
        ELSE IF mode \in HeatModes THEN
            IF temp_diff <= -deadband THEN none
            ELSE HvacOutput(RoundDiv(hvac.capacity_heating_w
                                     * OutputFraction(temp_diff, deadband), 10000),
                            get_cop_heating(hvac, outdoor_temp_c))
        ELSE IF mode \in CoolModes THEN
            IF temp_diff >= deadband THEN none
            ELSE HvacOutput(RoundDiv(hvac.capacity_cooling_w
                                     * OutputFraction(-temp_diff, deadband), 10000),
                            get_cop_cooling(hvac, outdoor_temp_c))
        ELSE none

\* calc_q_hvac: [q : 1e-1 W, power : 1e-3 W]; default deadband 0.3
calc_q_hvac(hvac, mode, indoor_temp_c, target_temp_c, outdoor_temp_c) ==
    LET deadband  == 30
        temp_diff == target_temp_c - indoor_temp_c
        none      == [q |-> 0, power |-> 0]
    IN  IF mode = "off" THEN none
        ELSE IF mode \in HeatModes THEN
            IF temp_diff <= -deadband THEN none
            ELSE HvacOutput(RoundDiv(hvac.capacity_heating_w
                                     * OutputFraction(temp_diff, deadband), 10000),
                            get_cop_heating(hvac, outdoor_temp_c))
        ELSE IF mode \in CoolModes THEN
            IF temp_diff >= deadband THEN none
            ELSE HvacOutput(-RoundDiv(hvac.capacity_cooling_w
                                      * OutputFraction(-temp_diff, deadband), 10000),
                            get_cop_cooling(hvac, outdoor_temp_c))
        ELSE none

(***************************************************************************)
(* simulate_temperature_step, timestep 3600 s                              *)
(*   returns new_temp (1e-2 degC), power_w (1e-2 W), energy_kwh (1e-4 kWh) *)
(*   and, for the properties, the heat q_hvac it injected (1e-1 W)         *)
(***************************************************************************)
\* dT = (q_total * timestep_seconds) / thermal_mass if thermal_mass > 0 else 0
TempChange(house, q_total) ==
    IF house.thermal_mass > 0
    THEN DivScaled(q_total * 360, house.thermal_mass, 2)
    ELSE 0

\* lines 534-552 without the two clamps of new_temp
OvershootProtection_unprotected(hvac_mode, target_temp_c, raw_temp, hv) ==
    [new_temp   |-> raw_temp,
     power_w    |-> RoundDiv(hv.power, 10),
     energy_kwh |-> RoundDiv(hv.power, 100),
     q_hvac     |-> hv.q]

\* lines 534-552: overshoot protection, energy, rounding of the results
OvershootProtection(hvac_mode, target_temp_c, raw_temp, hv) ==
    LET max_overshoot == 50
        over       == hvac_mode \in HeatModes /\ raw_temp > target_temp_c + max_overshoot
        under      == hvac_mode \in CoolModes /\ raw_temp < target_temp_c - max_overshoot
        power_draw == IF over \/ under THEN RoundDiv(hv.power * 3, 10) ELSE hv.power
    IN  [new_temp   |-> IF over THEN target_temp_c + max_overshoot
                        ELSE IF under THEN target_temp_c - max_overshoot
                        ELSE raw_temp,
         power_w    |-> RoundDiv(power_draw, 10),
         energy_kwh |-> RoundDiv(power_draw, 100),
         q_hvac     |-> hv.q]

\* lines 527-532: q_total = q_env + q_hvac, new_temp = indoor_temp_c + dT
HeatBalance(house, indoor_temp_c, target_temp_c, hvac_mode, q_env, hv) ==
    OvershootProtection(hvac_mode, target_temp_c,
                        indoor_temp_c + TempChange(house, q_env + hv.q), hv)

simulate_temperature_step(house, hvac, weather, indoor_temp_c, target_temp_c, hvac_mode) ==
    HeatBalance(house, indoor_temp_c, target_temp_c, hvac_mode,
                calc_q_solar(house, weather)
                  + calc_q_wind(house, weather, indoor_temp_c)
                  + calc_q_conductive(house, weather, indoor_temp_c),
                calc_q_hvac(hvac, hvac_mode, indoor_temp_c, target_temp_c,
                            weather.temp_outdoor_c))

(***************************************************************************)
(* Predictive controller                                                   *)
(***************************************************************************)
\* $/kWh, 1e-3
ELECTRICITY_COST_KWH == 150

\* LAMBDA_VALUES.get(personal_comfort, 0.5), 1e-2
LAMBDA_VALUES ==
    [c \in 1..10 |-> CASE c = 1 -> 5 [] c = 2 -> 10 [] c = 3 -> 20 [] c = 4 -> 30
                       [] c = 5 -> 50 [] c = 6 -> 60 [] c = 7 -> 70 [] c = 8 -> 80
                       [] c = 9 -> 90 [] OTHER -> 100]

\* An Optional[WeatherConditions] is a sequence of length 0 (None) or 1.
None == << >>
Some(x) == << x >>

\* determine_hvac_mode, lines 619-625: HVAC-off prediction of the next hour
predict_1(house, hvac, weather_next, indoor_temp_c, target_temp_c) ==
    IF weather_next # None
    THEN simulate_temperature_step(house, hvac, weather_next[1], indoor_temp_c,
                                   target_temp_c, "off").new_temp
    ELSE indoor_temp_c

\* determine_hvac_mode, lines 627-633: HVAC-off prediction two hours ahead
predict_2(house, hvac, weather_future, t_pred_1, target_temp_c) ==
    IF weather_future # None
    THEN simulate_temperature_step(house, hvac, weather_future[1], t_pred_1,
                                   target_temp_c, "off").new_temp
    ELSE t_pred_1

\* faulty variant of the rule chain: pre-conditioning is tried before the
\* comfort-band test, so it can replace heating and cooling
ModeRule_preconditionFirst(has_future, t_pred_1, t_pred_2, target_temp_c, delta, current_price, future_price) ==
    LET upper_limit == target_temp_c + delta
        lower_limit == target_temp_c - delta
    IN  IF has_future /\ t_pred_2 > upper_limit /\ current_price < future_price
        THEN [mode |-> "pre-cool", reason |-> "Pre-cooling"]
        ELSE IF has_future /\ t_pred_2 < lower_limit /\ current_price < future_price
        THEN [mode |-> "pre-heat", reason |-> "Pre-heating"]
        ELSE IF lower_limit <= t_pred_1 /\ t_pred_1 <= upper_limit
        THEN [mode |-> "off", reason |-> "within comfort band"]
        ELSE IF t_pred_1 > upper_limit
        THEN [mode |-> "cool", reason |-> "Cooling needed"]
        ELSE IF t_pred_1 < lower_limit
        THEN [mode |-> "heat", reason |-> "Heating needed"]
        ELSE [mode |-> "off", reason |-> "Default"]

\* faulty variant of the rule chain: pre-conditioning ignores the prices
ModeRule_ignorePrice(has_future, t_pred_1, t_pred_2, target_temp_c, delta, current_price, future_price) ==
    LET upper_limit == target_temp_c + delta
        lower_limit == target_temp_c - delta
    IN  IF lower_limit <= t_pred_1 /\ t_pred_1 <= upper_limit THEN
            IF has_future /\ t_pred_2 > upper_limit
            THEN [mode |-> "pre-cool", reason |-> "Pre-cooling"]
            ELSE IF has_future /\ t_pred_2 < lower_limit
            THEN [mode |-> "pre-heat", reason |-> "Pre-heating"]
            ELSE [mode |-> "off", reason |-> "within comfort band"]
        ELSE IF t_pred_1 > upper_limit
        THEN [mode |-> "cool", reason |-> "Cooling needed"]
        ELSE IF t_pred_1 < lower_limit
        THEN [mode |-> "heat", reason |-> "Heating needed"]
        ELSE [mode |-> "off", reason |-> "Default"]

\* determine_hvac_mode, lines 635-660: the rule chain on the two predictions.
\* The reason text is reduced to the rule that fired.
ModeRule(has_future, t_pred_1, t_pred_2, target_temp_c, delta, current_price, future_price) ==
    LET upper_limit == target_temp_c + delta
        lower_limit == target_temp_c - delta
    IN  IF lower_limit <= t_pred_1 /\ t_pred_1 <= upper_limit THEN
            IF has_future /\ t_pred_2 > upper_limit /\ current_price < future_price
            THEN [mode |-> "pre-cool", reason |-> "Pre-cooling"]
            ELSE IF has_future /\ t_pred_2 < lower_limit /\ current_price < future_price
            THEN [mode |-> "pre-heat", reason |-> "Pre-heating"]
            ELSE [mode |-> "off", reason |-> "within comfort band"]
        ELSE IF t_pred_1 > upper_limit
        THEN [mode |-> "cool", reason |-> "Cooling needed"]
        ELSE IF t_pred_1 < lower_limit
        THEN [mode |-> "heat", reason |-> "Heating needed"]
        ELSE [mode |-> "off", reason |-> "Default"]

ModeFrom1(house, hvac, weather_future, t_pred_1, target_temp_c, delta, current_price, future_price) ==
    ModeRule(weather_future # None, t_pred_1,
             predict_2(house, hvac, weather_future, t_pred_1, target_temp_c),
             target_temp_c, delta, current_price, future_price)

\* determine_hvac_mode: [mode, reason].  weather_current and lambda_comfort
\* are parameters it never reads.
determine_hvac_mode(house, hvac, weather_current, weather_next, weather_future, indoor_temp_c, target_temp_c, delta, current_price, future_price, lambda_comfort) ==
    ModeFrom1(house, hvac, weather_future,
              predict_1(house, hvac, weather_next, indoor_temp_c, target_temp_c),
              target_temp_c, delta, current_price, future_price)

\* generate_hvac_schedule.get_price, 1e-3 $/kWh
get_price(hour) ==
    IF 16 <= hour /\ hour <= 21 THEN RoundDiv(ELECTRICITY_COST_KWH * 15, 10)
    ELSE IF 7 <= hour /\ hour <= 15 THEN ELECTRICITY_COST_KWH
    ELSE RoundDiv(ELECTRICITY_COST_KWH * 7, 10)

\* deadband: delta = 1.5 - (personal_comfort - 5) * 0.1, clamped to [0.5, 2.0]
Deadband(personal_comfort) ==
    Max(50, Min(200, 150 - (personal_comfort - 5) * 10))

\* weather_rows[:24]
Take(rows, n) == SubSeq(rows, 1, Min(Len(rows), n))

\* faulty variant of the padding loop: repeats the first sample, not the last
RECURSIVE PadTo_first(_, _)
PadTo_first(conds, n) ==
    IF Len(conds) >= n THEN conds
    ELSE IF Len(conds) > 0 THEN PadTo_first(Append(conds, conds[1]), n)
    ELSE PadTo_first(Append(conds, DefaultWeather), n)

\* while len(weather_conditions) < 24: append the last one, or the default
RECURSIVE PadTo(_, _)
PadTo(conds, n) ==
    IF Len(conds) >= n THEN conds
    ELSE IF Len(conds) > 0 THEN PadTo(Append(conds, conds[Len(conds)]), n)
    ELSE PadTo(Append(conds, DefaultWeather), n)

\* the 24 WeatherConditions the loop reads
ParseWeather(weather_rows) ==
    LET head == Take(weather_rows, 24)
    IN  PadTo([i \in 1..Len(head) |-> from_weather_row(head[i])], 24)

\* HVACSchedule.to_dict: totals rounded to 2 decimals
\*   total_cost : cents, total_energy_kwh : 1e-2 kWh, comfort_score : 1e-2
to_dict(sched) ==
    [actions          |-> sched.actions,
     total_cost       |-> RoundDiv(sched.total_cost, 100000),
     total_energy_kwh |-> RoundDiv(sched.total_energy_kwh, 100),
     comfort_score    |-> RoundDiv(sched.comfort_score, 100)]

(***************************************************************************)
(* State                                                                   *)
(*   pc        where the call of generate_hvac_schedule stands             *)
(*   args      its arguments                                               *)
(*   house .. actions   its local variables, named as in the code          *)
(*   observed  what each loop iteration read and computed (for the         *)
(*             properties; the code does not keep it)                      *)
(*   result    the HVACSchedule returned, None before                      *)
(*   sim       a chain of simulate_temperature_step calls                  *)
(*   cop       a call of the COP functions                                 *)
(*   rc        a chain of calculate_zone_heat_balance_RC calls             *)
(*   db        the users and user_thermostat tables of database/db.py      *)
(*   requests  the requests served by the backend, each with its position  *)
(*   qcall     a chain of calc_q_hvac calls                                *)
(*   zone      the hourly loop of compute_hvac_intervals (model.py)        *)
(*   ctl       the minute loop of generate_schedule (model_testing)        *)
(***************************************************************************)
VARIABLES pc, args, house, hvac, weather_conditions, delta, hour, current_temp,
          total_cost, total_energy, comfort_deviations, actions, observed,
          result, sim, cop, rc, db, requests, qcall, zone, ctl

vars == << pc, args, house, hvac, weather_conditions, delta, hour, current_temp,
           total_cost, total_energy, comfort_deviations, actions, observed,
           result, sim, cop, rc, db, requests, qcall, zone, ctl >>

genVars == << pc, args, house, hvac, weather_conditions, delta, hour, current_temp,
              total_cost, total_energy, comfort_deviations, actions, observed,
              result >>

\* the state of the other machines, untouched by generate_hvac_schedule,
\* predict_temperature and the COP calls
srvVars == << db, requests >>

extVars == << qcall, zone, ctl >>

auxVars == << rc, srvVars, extVars >>

coreVars == << genVars, sim, cop, rc, srvVars >>

(***************************************************************************)
(* Inputs of generate_hvac_schedule                                        *)
(***************************************************************************)
\* longest forecast supplied
MaxRows == 26

\* range(24)
HOURS == 24

HouseDatas ==
    { [home_size |-> 1500, insulation_quality |-> "average", age_of_house |-> 20,
       hvac_type |-> "heat_pump", hvac_age |-> 5],
      [home_size |-> 2500, insulation_quality |-> "poor", age_of_house |-> 50,
       hvac_type |-> "furnace", hvac_age |-> 12],
      [home_size |-> 800, insulation_quality |-> "excellent", age_of_house |-> 5,
       hvac_type |-> "mini_split", hvac_age |-> 3],
      \* no building or HVAC parameter at all
      [occupancy |-> "home"],
      \* hvac_type and hvac_age missing
      [home_size |-> 1500, insulation_quality |-> "average"],
      \* unrecognized insulation category
      [home_size |-> 1500, insulation_quality |-> "straw", age_of_house |-> 20,
       hvac_type |-> "central_ac", hvac_age |-> 10],
      \* non-positive home_size
      [home_size |-> 0, insulation_quality |-> "average", age_of_house |-> 20,
       hvac_type |-> "central_ac", hvac_age |-> 10],
      [home_size |-> -100, insulation_quality |-> "average", age_of_house |-> 20,
       hvac_type |-> "central_ac", hvac_age |-> 10] }

Row(temp, solar, wind, rain, snowfall) ==
    [temperature_2m |-> temp, solar_radiation |-> solar, windspeed_10m |-> wind,
     rain |-> rain, snowfall |-> snowfall]

\* row i (1-based) of each forecast shape
ForecastRow(shape, i) ==
    CASE shape = "hold15" -> Row(1500, 0, 0, 0, 0)
      [] shape = "swing"  -> IF i % 2 = 1 THEN Row(-1000, 0, 0, 0, 0)
                             ELSE Row(1800, 0, 0, 0, 0)
      [] shape = "hot"    -> IF i % 2 = 1 THEN Row(3300, 600, 2, 0, 0)
                             ELSE Row(3800, 800, 0, 0, 0)
      [] shape = "ramp"   -> Row(500 + (1300 * (12 - Abs(13 - i))) \div 12, 0, 0, 0, 0)
      [] OTHER            -> CASE i % 4 = 1 -> Row(-500, 0, 5, 0, 80)
                               [] i % 4 = 2 -> Row(500, 100, 10, 20, 0)
                               [] i % 4 = 3 -> [humidity_2m |-> 50]
                               [] OTHER     -> Row(1000, 300, 0, 0, 20)

ForecastShapes == {"hold15", "swing", "hot", "ramp", "mixed"}
ForecastLengths == {0, 1, 2, 23, 24, MaxRows}

Forecast(shape, k) == [i \in 1..k |-> ForecastRow(shape, i)]

StartTemps == {1500, 2200, 2600}
ComfortLevels == {1, 5, 10}
TargetTemps == {2200}

Idle == [at |-> "idle"]
SrvIdle == db = Idle /\ requests = << >>
ExtIdle == qcall = Idle /\ zone = Idle /\ ctl = Idle
AuxIdle == rc = Idle /\ SrvIdle /\ ExtIdle

(***************************************************************************)
(* generate_hvac_schedule                                                  *)
(***************************************************************************)
GenInit ==
    /\ pc = "start"
    /\ args \in [house_data : HouseDatas,
                 weather_rows : {Forecast(sh, k) : sh \in ForecastShapes,
                                                   k \in ForecastLengths},
                 current_indoor_temp_c : StartTemps,
                 personal_comfort : ComfortLevels,
                 target_temp_c : TargetTemps]
    /\ house = None /\ hvac = None /\ weather_conditions = << >>
    /\ delta = 0 /\ hour = 0 /\ current_temp = 0
    /\ total_cost = 0 /\ total_energy = 0
    /\ comfort_deviations = << >> /\ actions = << >> /\ observed = << >>
    /\ result = None
    /\ sim = Idle /\ cop = Idle /\ AuxIdle

\* math.sqrt(floor_area_m2) raises ValueError on a negative floor area
SqrtRaises(house_data) == Get(house_data, "home_size", 1500) < 0

\* lines 675-711: build the property objects, parse and pad the weather,
\* derive the comfort parameters, initialise the accumulators
Build ==
    /\ pc = "start"
    /\ ~SqrtRaises(args.house_data)
    /\ house' = HouseProperties_from_house_data(args.house_data)
    /\ hvac' = HVACSystem_from_house_data(args.house_data)
    /\ weather_conditions' = ParseWeather(args.weather_rows)
    /\ delta' = Deadband(args.personal_comfort)
    /\ current_temp' = args.current_indoor_temp_c
    /\ hour' = 0 /\ total_cost' = 0 /\ total_energy' = 0
    /\ comfort_deviations' = << >> /\ actions' = << >>
    /\ pc' = "loop"
    /\ UNCHANGED << args, observed, result, sim, cop, auxVars >>

\* HouseProperties.from_house_data raises: the exception leaves the call
BuildRaises ==
    /\ pc = "start"
    /\ SqrtRaises(args.house_data)
    /\ pc' = "raised"
    /\ UNCHANGED << args, house, hvac, weather_conditions, delta, hour, current_temp,
                    total_cost, total_energy, comfort_deviations, actions, observed,
                    result, sim, cop, auxVars >>

\* lines 733-758: cost, totals, comfort deviation, the HVACAction, next state
Record(mode, reason, step, current_price, t_pred_1, t_pred_2) ==
    /\ total_cost' = total_cost + step.energy_kwh * current_price
    /\ total_energy' = total_energy + step.energy_kwh
    /\ comfort_deviations' =
           Append(comfort_deviations, Abs(step.new_temp - args.target_temp_c))
    /\ actions' = Append(actions,
           [hour             |-> hour,
            mode             |-> mode,
            start_time       |-> hour,
            end_time         |-> (hour + 1) % 24,
            power_kw         |-> RoundDiv(step.power_w, 1000),
            cost             |-> RoundDiv(step.energy_kwh * current_price, 100000),
            reason           |-> reason,
            predicted_temp_c |-> RoundDiv(step.new_temp, 10),
            target_temp_c    |-> args.target_temp_c])
    /\ current_temp' = step.new_temp
    /\ observed' = Append(observed,
           [weather |-> weather_conditions[hour + 1], start_temp |-> current_temp,
            t_pred_1 |-> t_pred_1, t_pred_2 |-> t_pred_2,
            q_hvac |-> step.q_hvac, energy_kwh |-> step.energy_kwh,
            new_temp |-> step.new_temp])

\* faulty variant of the simulation of the hour: the step starts from the
\* hypothetical HVAC-off prediction instead of the current temperature
Simulate_fromPrediction(decision, weather, current_price, t_pred_1, t_pred_2) ==
    Record(decision.mode, decision.reason,
           simulate_temperature_step(house, hvac, weather, t_pred_1,
                                     args.target_temp_c, decision.mode),
           current_price, t_pred_1, t_pred_2)

\* lines 728-731: simulate this hour with the mode decided
Simulate(decision, weather, current_price, t_pred_1, t_pred_2) ==
    Record(decision.mode, decision.reason,
           simulate_temperature_step(house, hvac, weather, current_temp,
                                     args.target_temp_c, decision.mode),
           current_price, t_pred_1, t_pred_2)

\* lines 721-726: decide the mode; the two predictions are recomputed for
\* `observed` exactly as determine_hvac_mode computes them
Decide(weather, weather_next, weather_future, current_price, future_price, t_pred_1) ==
    Simulate(determine_hvac_mode(house, hvac, weather, weather_next, weather_future,
                                 current_temp, args.target_temp_c, delta,
                                 current_price, future_price,
                                 Get(LAMBDA_VALUES, args.personal_comfort, 50)),
             weather, current_price, t_pred_1,
             predict_2(house, hvac, weather_future, t_pred_1, args.target_temp_c))

\* one iteration of `for hour in range(24)` (lines 713-758)
Hour ==
    /\ pc = "loop"
    /\ hour < HOURS
    /\ Decide(weather_conditions[hour + 1],
              IF hour < 23 THEN Some(weather_conditions[hour + 2]) ELSE None,
              IF hour < 22 THEN Some(weather_conditions[hour + 3]) ELSE None,
              get_price(hour),
              IF hour < 22 THEN get_price(hour + 2) ELSE get_price(hour),
              predict_1(house, hvac,
                        IF hour < 23 THEN Some(weather_conditions[hour + 2]) ELSE None,
                        current_temp, args.target_temp_c))
    /\ hour' = hour + 1
    /\ UNCHANGED << pc, args, house, hvac, weather_conditions, delta, result, sim, cop,
                    auxVars >>

RECURSIVE SumSeq(_)
SumSeq(s) == IF s = << >> THEN 0 ELSE s[1] + SumSeq(Tail(s))

\* lines 760-761 without the floor at 0
ComfortScore_unfloored(deviations) ==
    LET avg_deviation == IF Len(deviations) > 0
                         THEN DivScaled(SumSeq(deviations), Len(deviations), 2)
                         ELSE 0
    IN  1000000 - avg_deviation * 20

\* lines 760-761: comfort score (1e-4): max(0, 100 - avg_deviation * 20)
ComfortScore(deviations) ==
    LET avg_deviation == IF Len(deviations) > 0
                         THEN DivScaled(SumSeq(deviations), Len(deviations), 2)
                         ELSE 0
    IN  Max(0, 1000000 - avg_deviation * 20)

\* lines 763-769: the returned HVACSchedule
\*   total_cost : 1e-7 $, total_energy_kwh : 1e-4 kWh
Return ==
    /\ pc = "loop"
    /\ hour = HOURS
    /\ result' = Some([actions          |-> actions,
                       total_cost       |-> total_cost,
                       total_energy_kwh |-> total_energy,
                       comfort_score    |-> ComfortScore(comfort_deviations)])
    /\ pc' = "done"
    /\ UNCHANGED << args, house, hvac, weather_conditions, delta, hour, current_temp,
                    total_cost, total_energy, comfort_deviations, actions, observed,
                    sim, cop, auxVars >>

GenNext == Build \/ BuildRaises \/ Hour \/ Return

Spec == GenInit /\ [][GenNext]_vars

(***************************************************************************)
(* Properties of generate_hvac_schedule (specification Spec)               *)
(***************************************************************************)
RequiredKeys == {"home_size", "insulation_quality", "hvac_type", "hvac_age"}

\* every required parameter present and in its domain
ValidHouseData(house_data) ==
    /\ RequiredKeys \subseteq DOMAIN house_data
    /\ house_data["home_size"] > 0
    /\ house_data["insulation_quality"] \in InsulationKeys

Returned == result # None
Schedule == result[1]

RECURSIVE SumOver(_, _, _)
\* sum of f[i][field] for i in 1..n
SumOver(f, field, n) == IF n = 0 THEN 0 ELSE f[n][field] + SumOver(f, field, n - 1)

\* C2: the totals of the returned schedule, in their to_dict form (rounded to
\* cents and to 0.01 kWh), equal the sum of the entries' cost fields and the
\* sum of the energies the entries report (power_kw over the one-hour step).
C2_CostReconciles ==
    Returned =>
        /\ to_dict(Schedule).total_cost = SumOver(Schedule.actions, "cost", 24)
        /\ to_dict(Schedule).total_energy_kwh = SumOver(Schedule.actions, "power_kw", 24)

\* C3: every entry has one of the five modes; the heating trigger
\* (prediction below target - delta) and the cooling trigger (prediction above
\* target + delta) never hold together; the heat injected is >= 0 when
\* heating, <= 0 when cooling and 0 when off.
C3_NoSimultaneousHeatCool ==
    \A i \in 1..Len(actions) :
        /\ actions[i].mode \in Modes
        /\ ~(observed[i].t_pred_1 < args.target_temp_c - delta
             /\ observed[i].t_pred_1 > args.target_temp_c + delta)
        /\ actions[i].mode \in HeatModes => observed[i].q_hvac >= 0
        /\ actions[i].mode \in CoolModes => observed[i].q_hvac <= 0
        /\ actions[i].mode = "off" => observed[i].q_hvac = 0

\* C3 witness: one schedule that both heated and cooled, each with heat flowing
C3_Witness ==
    /\ Returned
    /\ \E i \in 1..24 : actions[i].mode \in HeatModes /\ observed[i].q_hvac > 0
    /\ \E i \in 1..24 : actions[i].mode \in CoolModes /\ observed[i].q_hvac < 0

\* where the HVAC-off prediction lies: -1 below the band, 0 inside, 1 above
Region(p) ==
    IF p < args.target_temp_c - delta THEN -1
    ELSE IF p > args.target_temp_c + delta THEN 1 ELSE 0

\* the prediction crosses the band boundary between steps i and i + 1
Crossing(i) == Region(observed[i].t_pred_1) # Region(observed[i + 1].t_pred_1)
ModeChange(i) == actions[i].mode # actions[i + 1].mode

\* C4: when the HVAC-off prediction crosses the comfort-band boundary on 10
\* consecutive steps, the schedule has fewer mode changes than crossings.
C4_Hysteresis ==
    (Returned /\ \E s \in 1..14 : \A j \in s..(s + 9) : Crossing(j))
        => Cardinality({i \in 1..23 : ModeChange(i)})
             < Cardinality({i \in 1..23 : Crossing(i)})

\* C6: from 15 degC indoors, target 22 degC, outdoor held at 15 degC for 24
\* steps (complete, valid house data): some entry heats, the last entry's
\* predicted_temp_c (0.1 degC) is within the comfort band, and no entry exceeds
\* target + 0.5 degC.
C6_TargetSeeking ==
    (/\ Returned
     /\ ValidHouseData(args.house_data)
     /\ args.weather_rows = Forecast("hold15", 24)
     /\ args.current_indoor_temp_c = 1500
     /\ args.target_temp_c = 2200)
        => /\ \E i \in 1..24 : actions[i].mode \in HeatModes
           /\ actions[24].predicted_temp_c * 10 >= args.target_temp_c - delta
           /\ actions[24].predicted_temp_c * 10 <= args.target_temp_c + delta
           /\ \A i \in 1..24 : actions[i].predicted_temp_c * 10 <= args.target_temp_c + 50

\* the WeatherConditions step i (1-based) must read from a forecast of k rows
ExpectedWeather(i) ==
    LET k == Len(args.weather_rows)
    IN  IF k = 0 THEN DefaultWeather
        ELSE from_weather_row(args.weather_rows[Min(Min(i, k), 24)])

\* C9: for every forecast length (0 to more than 24 rows) the loop runs its 24
\* hours in order and returns 24 entries for hours 0..23; step i of a forecast
\* of k < 24 rows is simulated with sample min(i, k); rows beyond the 24th are
\* never read; the only exception raised comes from the house data, whatever
\* the forecast.
C9_Padding ==
    /\ pc \in {"loop", "done"} =>
           /\ Len(weather_conditions) = 24
           /\ \A i \in 1..24 : weather_conditions[i] = ExpectedWeather(i)
           /\ hour <= 24 /\ Len(actions) = hour
           /\ \A i \in 1..Len(actions) :
                  /\ actions[i].hour = i - 1
                  /\ observed[i].weather = ExpectedWeather(i)
    /\ pc = "done" => Returned /\ Len(Schedule.actions) = 24
    /\ pc = "raised" => SqrtRaises(args.house_data)

\* C9 witness: a schedule returned for a forecast of 2 different rows
C9_Witness ==
    /\ Returned
    /\ Len(args.weather_rows) = 2
    /\ args.weather_rows[1] # args.weather_rows[2]

\* C10: house data that lacks a required parameter, or carries one out of its
\* domain, is refused: the loop is never entered and nothing is returned.
C10_ConfigRefused ==
    ~ValidHouseData(args.house_data) => pc \notin {"loop", "done"} /\ ~Returned

(***************************************************************************)
(* predict_temperature: a chain of simulate_temperature_step calls in one  *)
(* HVAC mode over a weather forecast (specification SimSpec)               *)
(*   sim.temps             the list built so far, start_temp_c first       *)
(*   sim.weather_forecast  the samples consumed so far                     *)
(***************************************************************************)
\* longest weather_forecast handed to predict_temperature
MaxForecast == 5

SimHouseDatas ==
    { [home_size |-> 1500, insulation_quality |-> "average", age_of_house |-> 20,
       hvac_type |-> "heat_pump", hvac_age |-> 5],
      [home_size |-> 2500, insulation_quality |-> "poor", age_of_house |-> 50,
       hvac_type |-> "furnace", hvac_age |-> 12],
      [home_size |-> 800, insulation_quality |-> "excellent", age_of_house |-> 5,
       hvac_type |-> "mini_split", hvac_age |-> 3],
      [home_size |-> 20, insulation_quality |-> "poor", age_of_house |-> 50,
       hvac_type |-> "window_unit", hvac_age |-> 12] }

\* outdoor temperature within [-50, 70] degC
SimWeathers ==
    { WeatherConditions(7000, 50, 1000, 0, 0, 0),
      WeatherConditions(0, 50, 0, 0, 0, 0),
      WeatherConditions(-5000, 50, 0, 20, 0, 30),
      WeatherConditions(1500, 50, 0, 5, 20, 0) }

SimModes == {"off", "heat", "cool", "pre-heat", "pre-cool"}
SimStartTemps == {2000, 2600}

GenIdle ==
    /\ args = Idle
    /\ house = None /\ hvac = None /\ weather_conditions = << >>
    /\ delta = 0 /\ hour = 0 /\ current_temp = 0
    /\ total_cost = 0 /\ total_energy = 0
    /\ comfort_deviations = << >> /\ actions = << >> /\ observed = << >>
    /\ result = None

SimInit ==
    /\ pc = "predict"
    /\ GenIdle
    /\ cop = Idle /\ AuxIdle
    /\ \E house_data \in SimHouseDatas, hvac_mode \in SimModes,
          start_temp_c \in SimStartTemps :
           sim = [at |-> "loop",
                  house_data |-> house_data,
                  house |-> HouseProperties_from_house_data(house_data),
                  hvac |-> HVACSystem_from_house_data(house_data),
                  hvac_mode |-> hvac_mode,
                  target_temp_c |-> 2200,
                  temps |-> << start_temp_c >>,
                  current_temp |-> start_temp_c,
                  weather_forecast |-> << >>]

\* one iteration of "for weather in weather_forecast"
PredictStep ==
    /\ pc = "predict" /\ sim.at = "loop"
    /\ Len(sim.weather_forecast) < MaxForecast
    /\ \E weather \in SimWeathers :
         LET new_temp == simulate_temperature_step(sim.house, sim.hvac, weather,
                             sim.current_temp, sim.target_temp_c, sim.hvac_mode).new_temp
         IN  sim' = [sim EXCEPT !.temps = Append(@, new_temp),
                                !.current_temp = new_temp,
                                !.weather_forecast = Append(@, weather)]
    /\ UNCHANGED << genVars, cop, auxVars >>

\* the forecast is exhausted: return temps
PredictReturn ==
    /\ pc = "predict" /\ sim.at = "loop"
    /\ sim' = [sim EXCEPT !.at = "returned"]
    /\ UNCHANGED << genVars, cop, auxVars >>

SimNext == PredictStep \/ PredictReturn

SimSpec == SimInit /\ [][SimNext]_vars

\* C1: with every outdoor temperature of the forecast in [-50, 70] degC, every
\* indoor temperature a chain of simulate_temperature_step calls returns, for
\* every building profile and in every HVAC mode, lies in [-50, 70] degC (and
\* is therefore finite).
C1_Stability ==
    pc = "predict" =>
        \A i \in 2..Len(sim.temps) : sim.temps[i] >= -5000 /\ sim.temps[i] <= 7000

\* the forecast consumed so far repeats one sample with no sun, rain or snow
ConstantConditions ==
    \A i \in 1..Len(sim.weather_forecast) :
        /\ sim.weather_forecast[i] = sim.weather_forecast[1]
        /\ sim.weather_forecast[i].solar_radiation = 0
        /\ ~is_raining(sim.weather_forecast[i])
        /\ ~is_snowing(sim.weather_forecast[i])

\* C5: with HVAC off and constant outdoor conditions (no sun, rain or snow),
\* each step leaves the indoor temperature on the same side of T_out and no
\* farther from it than before, for every house with home_size > 0.
C5_Convergence ==
    (/\ pc = "predict"
     /\ sim.hvac_mode = "off"
     /\ sim.house_data.home_size > 0
     /\ ConstantConditions)
        => \A i \in 1..(Len(sim.temps) - 1) :
              LET t_out  == sim.weather_forecast[1].temp_outdoor_c
                  before == sim.temps[i] - t_out
                  after  == sim.temps[i + 1] - t_out
              IN  /\ Abs(after) <= Abs(before)
                  /\ before >= 0 => after >= 0
                  /\ before <= 0 => after <= 0

(***************************************************************************)
(* COP functions (specification CopSpec)                                   *)
(*   temperatures 1e-2 degC, part_load_ratio 1e-2, ages in years,          *)
(*   COP 1e-6                                                              *)
(***************************************************************************)
\* model.calculate_cop_cooling
calculate_cop_cooling(T_outdoor, T_indoor, part_load_ratio, hvac_age) ==
    LET cop_ref    == 3
        deltaT     == T_outdoor - T_indoor
        \* 1e-4: 1.0 - 0.02 * max(0, deltaT - 15)
        T_effect   == 10000 - 2 * Max(0, deltaT - 1500)
        \* 1e-4
        pl_effect  == IF 50 <= part_load_ratio /\ part_load_ratio <= 100
                      THEN 9000 + 4000 - 160 * Abs(part_load_ratio - 75)
                      ELSE 7000 + 60 * part_load_ratio
        \* 1e-2
        age_effect == Max(70, 100 - hvac_age)
        raw_cop    == RoundDiv(RoundDiv(cop_ref * T_effect * pl_effect, 100)
                                 * age_effect, 100)
    IN  Max(1500000, Min(4500000, raw_cop))

\* model.calculate_cop_heating
calculate_cop_heating(T_outdoor, T_indoor, part_load_ratio, hvac_age, is_heatpump) ==
    IF is_heatpump
    THEN LET cop_ref    == 3
             T_effect   == IF T_outdoor < 0 THEN 10000 - (0 - T_outdoor)
                           ELSE 10000 + 2 * T_outdoor
             pl_effect  == 8500 + 30 * part_load_ratio
             age_effect == Max(65, 100 - hvac_age)
             raw_cop    == RoundDiv(RoundDiv(cop_ref * T_effect * pl_effect, 100)
                                      * age_effect, 100)
         IN  Max(1200000, Min(4000000, raw_cop))
    ELSE LET \* 1e-3: max(0.75, 1.0 - 0.005 * hvac_age)
             age_effect == Max(750, 1000 - 5 * hvac_age)
             \* 1e-4: 0.90 * age_effect
             efficiency == 9 * age_effect
         IN  IF efficiency > 0 THEN DivScaled(10000, efficiency, 6) ELSE 1100000

\* oldest system and warmest outdoor temperature the calls are made with
MaxAge == 12
MaxOutdoor == 4000

CopFunctions ==
    {"calculate_cop_cooling", "calculate_cop_heating", "get_cop_cooling", "get_cop_heating"}
HeatingFunctions == {"calculate_cop_heating", "get_cop_heating"}
CoolingFunctions == {"calculate_cop_cooling", "get_cop_cooling"}

\* the value the call c returns
CopValue(c) ==
    CASE c.fn = "calculate_cop_cooling" ->
           calculate_cop_cooling(c.T_outdoor, c.T_indoor, c.part_load_ratio, c.hvac_age)
      [] c.fn = "calculate_cop_heating" ->
           calculate_cop_heating(c.T_outdoor, c.T_indoor, c.part_load_ratio, c.hvac_age,
                                 c.is_heatpump)
      [] c.fn = "get_cop_cooling" ->
           get_cop_cooling([hvac_type |-> c.hvac_type, hvac_age |-> c.hvac_age], c.T_outdoor)
      [] OTHER ->
           get_cop_heating([hvac_type |-> c.hvac_type, hvac_age |-> c.hvac_age], c.T_outdoor)

\* cop.value is the COP of the last call, cop.prev the COP of the call before
\* it, which differed in the one input cop.changed names
Called(c, changed, prev) == [c EXCEPT !.value = CopValue(c), !.changed = changed, !.prev = prev]

CopInit ==
    /\ pc = "cop"
    /\ GenIdle
    /\ sim = Idle /\ AuxIdle
    /\ \E fn \in CopFunctions, T_outdoor \in {-1000, 0, 3500},
          part_load_ratio \in {0, 30, 75, 100}, is_heatpump \in BOOLEAN,
          hvac_type \in DOMAIN HVAC_COP_BASE \cup {"boiler"} :
         /\ fn \in {"get_cop_cooling", "get_cop_heating"}
              => part_load_ratio = 100 /\ is_heatpump = (hvac_type # "furnace")
         /\ fn \in {"calculate_cop_cooling", "calculate_cop_heating"}
              => hvac_type = (IF is_heatpump THEN "heat_pump" ELSE "furnace")
         /\ fn = "calculate_cop_cooling" => is_heatpump
         /\ cop = Called([at |-> "called", fn |-> fn, T_outdoor |-> T_outdoor,
                          T_indoor |-> 2200, part_load_ratio |-> part_load_ratio,
                          hvac_age |-> 0, is_heatpump |-> is_heatpump,
                          hvac_type |-> hvac_type, value |-> 0, changed |-> "none",
                          prev |-> 0], "none", 0)

\* the same call for a system one year older
OlderSystem ==
    /\ pc = "cop" /\ cop.hvac_age < MaxAge
    /\ cop' = Called([cop EXCEPT !.hvac_age = @ + 1], "hvac_age", cop.value)
    /\ UNCHANGED << genVars, sim, auxVars >>

\* the same call for an outdoor temperature one degree higher
WarmerOutdoor ==
    /\ pc = "cop" /\ cop.T_outdoor < MaxOutdoor
    /\ cop' = Called([cop EXCEPT !.T_outdoor = @ + 100], "T_outdoor", cop.value)
    /\ UNCHANGED << genVars, sim, auxVars >>

\* the same call of a model.py COP function at a part-load ratio 0.05 higher
HigherLoad ==
    /\ pc = "cop" /\ cop.fn \in {"calculate_cop_cooling", "calculate_cop_heating"}
    /\ cop.part_load_ratio < 100
    /\ cop' = Called([cop EXCEPT !.part_load_ratio = @ + 5], "part_load_ratio", cop.value)
    /\ UNCHANGED << genVars, sim, auxVars >>

CopNext == OlderSystem \/ WarmerOutdoor \/ HigherLoad

CopSpec == CopInit /\ [][CopNext]_vars

\* C7: with all other inputs fixed, the heating COP of every heating function
\* does not rise when the system gets a year older, and the cooling COP of
\* every cooling function does not rise when the outdoor temperature rises by
\* a degree from 35 degC or above.
C7_MonotonicDegradation ==
    pc = "cop" =>
        /\ (cop.fn \in HeatingFunctions /\ cop.changed = "hvac_age")
              => cop.value <= cop.prev
        /\ (cop.fn \in CoolingFunctions /\ cop.changed = "T_outdoor"
              /\ cop.T_outdoor - 100 >= 3500)
              => cop.value <= cop.prev

\* C8: every heating COP lies in [1.2, 4.0], every cooling COP in [1.5, 4.5].
C8_CopBounds ==
    pc = "cop" =>
        /\ cop.fn \in HeatingFunctions => cop.value >= 1200000 /\ cop.value <= 4000000
        /\ cop.fn \in CoolingFunctions => cop.value >= 1500000 /\ cop.value <= 4500000

(***************************************************************************)
(* calculate_zone_heat_balance_RC (specification RcSpec)                   *)
(*   A Python number is a float (finite, nan or +-inf) or an int too large *)
(*   to convert to a float:                                                *)
(*     [k |-> "float", v |-> n]   a finite float, n in the unit of the     *)
(*                                argument                                 *)
(*     [k |-> "nan"]              float("nan")                             *)
(*     [k |-> "inf", s |-> +-1]   float("inf"), float("-inf")              *)
(*     [k |-> "int", s |-> +-1]   +-10**400                                *)
(*   temperatures 1e-2 degC, heat flows W, dt_hour 1e-2 h, C_thermal J/K,  *)
(*   R_total 1e-4 K/W, RC_const 1e-2 s, alpha 1e-4                         *)
(***************************************************************************)
Float(v) == [k |-> "float", v |-> v]
NaN == [k |-> "nan"]
Inf(s) == [k |-> "inf", s |-> s]
HugeInt(s) == [k |-> "int", s |-> s]

\* max(lo, min(hi, x)) for finite lo <= hi: min keeps hi unless x < hi, which
\* is false for nan; max keeps lo unless the minimum is above it
Clamp(lo, hi, x) ==
    CASE x.k = "float" -> Max(lo, Min(hi, x.v))
      [] x.k = "nan"   -> hi
      [] OTHER         -> IF x.s < 0 THEN lo ELSE hi

\* a + b + c + d, left to right: adding an int beyond the float range to a
\* float raises OverflowError; ints add exactly; float addition never raises
Sum4(a, b, c, d) ==
    LET q == << a, b, c, d >>
        ints   == {i \in 1..4 : q[i].k = "int"}
        nans   == {i \in 1..4 : q[i].k = "nan"}
        posinf == {i \in 1..4 : q[i].k = "inf" /\ q[i].s > 0}
        neginf == {i \in 1..4 : q[i].k = "inf" /\ q[i].s < 0}
    IN  IF ints # {} /\ ints # 1..4 THEN [exc |-> "OverflowError"]
        ELSE IF ints = 1..4
        THEN [exc |-> "none",
              value |-> HugeInt(IF a.s + b.s + c.s + d.s >= 0 THEN 1 ELSE -1)]
        ELSE IF nans # {} \/ (posinf # {} /\ neginf # {})
        THEN [exc |-> "none", value |-> NaN]
        ELSE IF posinf # {} THEN [exc |-> "none", value |-> Inf(1)]
        ELSE IF neginf # {} THEN [exc |-> "none", value |-> Inf(-1)]
        ELSE [exc |-> "none", value |-> Float(a.v + b.v + c.v + d.v)]

\* faulty variant of the update: the final clamp to [-50, 70] is missing
ZoneUpdate_unclamped(T_zone_prev, T_eff, alpha, dt_seconds, C_thermal, Q_total) ==
    LET dT_heat == Max(-5000, Min(5000,
                       RoundDiv(DivScaled(Q_total * 36, C_thermal, 4) * (dt_seconds \div 36), 100)))
    IN  T_zone_prev + RoundDiv(alpha * (T_eff - T_zone_prev), 10000) + dT_heat

\* lines 510-522 once Q_total is known: dT_heat, the RC update, the final clamp
ZoneUpdate(T_zone_prev, T_eff, alpha, dt_seconds, C_thermal, Q_total) ==
    LET dT_heat    == Max(-5000, Min(5000,
                          RoundDiv(DivScaled(Q_total * 36, C_thermal, 4) * (dt_seconds \div 36), 100)))
        T_zone_new == T_zone_prev + RoundDiv(alpha * (T_eff - T_zone_prev), 10000)
                        + dT_heat
    IN  Max(-5000, Min(7000, T_zone_new))

\* lines 478-508: the clamped inputs, the time constant and the driving
\* temperature; Q_total is the clamped sum
ZoneBalance(T_zone_prev, T_outdoor, T_radiant, dt_hour, C_thermal, R_total, Q_total) ==
    LET dt_seconds == dt_hour * 36
        \* 1e-2 s, within [100, 100000] s
        RC_const   == Max(10000, Min(10000000, R_total * (C_thermal \div 100)))
        alpha      == Max(10, Min(10000, DivScaled(dt_seconds * 100, RC_const, 4)))
        T_eff      == Max(-5000, Min(7000,
                          RoundDiv(5 * T_outdoor + 3 * T_radiant + 2 * T_zone_prev, 10)))
    IN  ZoneUpdate(T_zone_prev, T_eff, alpha, dt_seconds, C_thermal, Q_total)

\* the exceptions the except clause catches
CaughtExceptions == {"OverflowError", "ValueError", "ZeroDivisionError"}

\* calculate_zone_heat_balance_RC: [raises, failed, value].  raises names the
\* exception that leaves the call ("none" when it returns); failed tells that
\* the except clause produced the value.
calculate_zone_heat_balance_RC(T_zone_prev, T_outdoor, T_radiant, Q_internal, Q_solar, Q_hvac, Q_inf, dt_hour, C_thermal, R_total) ==
    LET prev  == Clamp(-5000, 7000, T_zone_prev)
        total == Sum4(Q_internal, Q_solar, Q_hvac, Q_inf)
    IN  IF total.exc = "none"
        THEN [raises |-> "none", failed |-> FALSE,
              value |-> ZoneBalance(prev, Clamp(-5000, 7000, T_outdoor),
                                    Clamp(-5000, 7000, T_radiant),
                                    Clamp(1, 2400, dt_hour),
                                    Clamp(100000, 10000000, C_thermal),
                                    Clamp(10, 1000, R_total),
                                    Clamp(-100000, 100000, total.value))]
        ELSE IF total.exc \in CaughtExceptions
        THEN [raises |-> "none", failed |-> TRUE, value |-> Max(-5000, Min(7000, prev))]
        ELSE [raises |-> total.exc, failed |-> TRUE, value |-> prev]

\* longest chain of calls
MaxRcSteps == 2

RcTemps == {Float(2000), Float(-9000), Float(6900), NaN, Inf(1)}
RcHeats == {Float(0), Float(5000), Float(-300000), Inf(-1), HugeInt(1)}
RcTimesteps == {Float(100), Float(1000000)}
\* << C_thermal, R_total >>
RcEnvelopes == {<< Float(1000000), Float(100) >>, << Float(0), Float(0) >>,
                << Inf(1), Float(100) >>}

RcInit ==
    /\ pc = "rc"
    /\ GenIdle
    /\ sim = Idle /\ cop = Idle /\ SrvIdle /\ ExtIdle
    /\ \E T_zone \in RcTemps :
         rc = [at |-> "start", n |-> 0, T_zone |-> T_zone, T_zone_prev |-> T_zone,
               raises |-> "none", failed |-> FALSE]

\* one call; the zone temperature it returns is the next call's T_zone_prev
ZoneStep ==
    /\ pc = "rc" /\ rc.n < MaxRcSteps /\ rc.raises = "none"
    /\ \E T_outdoor \in {Float(-9000), Float(7000), NaN},
          Q_hvac \in RcHeats, Q_solar \in {Float(800), HugeInt(1)},
          dt_hour \in RcTimesteps, envelope \in RcEnvelopes :
         LET r == calculate_zone_heat_balance_RC(rc.T_zone, T_outdoor, Float(2000),
                      Float(300), Q_solar, Q_hvac, Float(-100), dt_hour, envelope[1],
                      envelope[2])
         IN  rc' = [at |-> "called", n |-> rc.n + 1, T_zone |-> Float(r.value),
                    T_zone_prev |-> rc.T_zone,
                    raises |-> r.raises, failed |-> r.failed]
    /\ UNCHANGED << genVars, sim, cop, srvVars, extVars >>

RcNext == ZoneStep

RcSpec == RcInit /\ [][RcNext]_vars

\* C11: every call of calculate_zone_heat_balance_RC returns (no exception
\* leaves it) a temperature within [-50, 70] degC, and a call whose arithmetic
\* failed returns the previous zone temperature clamped to [-50, 70] degC.
C11_NumericAnomaliesRecovered ==
    (pc = "rc" /\ rc.at = "called") =>
        /\ rc.raises = "none"
        /\ rc.T_zone.k = "float"
        /\ rc.T_zone.v >= -5000 /\ rc.T_zone.v <= 7000
        /\ rc.failed => rc.T_zone.v = Clamp(-5000, 7000, rc.T_zone_prev)

\* C11 witness: a call whose heat sum overflowed returned the previous
\* temperature -90 degC clamped to -50 degC
C11_Witness ==
    /\ pc = "rc" /\ rc.at = "called" /\ rc.failed
    /\ rc.T_zone_prev = Float(-9000) /\ rc.T_zone = Float(-5000)

(***************************************************************************)
(* compute_hvac_intervals: the RC parameters derived from house_vars       *)
(*   insulation 1e-2, home_size_m2 m2, C_thermal J/K, R_total 1e-4 K/W     *)
(***************************************************************************)
insulation_map == [poor |-> 160, average |-> 100, good |-> 75, excellent |-> 55]

IntervalParameters(house_vars) ==
    LET insulation   == Max(55, Min(160,
                            Get(insulation_map, Get(house_vars, "insulation_quality", "average"), 100)))
        home_size_m2 == Max(50, Min(500, Get(house_vars, "home_size", 100)))
    IN  [C_thermal |-> Max(100000, Min(5000000, RoundDiv(home_size_m2 * 500000, insulation))),
         R_total   |-> Max(10, Min(1000, RoundDiv(insulation * 100, home_size_m2)))]

\* C12: for every house data (home_size 0 included) the thermal mass that
\* HouseProperties.from_house_data derives lies within [0.1e6, 10e6] J/K, and
\* the parameter block of compute_hvac_intervals yields a capacitance within
\* [0.1e6, 10e6] J/K and a resistance within [0.001, 0.1] K/W.
C12_CoefficientsClamped ==
    pc \in {"loop", "done"} =>
        /\ house.thermal_mass >= 100000 /\ house.thermal_mass <= 10000000
        /\ IntervalParameters(args.house_data).C_thermal >= 100000
        /\ IntervalParameters(args.house_data).C_thermal <= 10000000
        /\ IntervalParameters(args.house_data).R_total >= 10
        /\ IntervalParameters(args.house_data).R_total <= 1000

\* C13: at every step, with p the HVAC-off prediction the controller made for
\* the next timestep, the entry's mode is heat iff p < target - band, cool iff
\* p > target + band, and one of off, pre-heat, pre-cool iff p is inside the
\* band.
C13_TransitionPolicy ==
    \A i \in 1..Len(actions) :
        LET p     == observed[i].t_pred_1
            lower == args.target_temp_c - delta
            upper == args.target_temp_c + delta
        IN  /\ actions[i].mode = "heat" <=> p < lower
            /\ actions[i].mode = "cool" <=> p > upper
            /\ actions[i].mode \in {"off", "pre-heat", "pre-cool"}
                 <=> (lower <= p /\ p <= upper)

\* C13 witness: one schedule with a heat, a cool, an off and a pre-heat entry
C13_Witness ==
    /\ Returned
    /\ \A mode \in {"heat", "cool", "off", "pre-heat"} :
          \E i \in 1..24 : actions[i].mode = mode

\* the price two hours after hour h
FuturePrice(h) == get_price(h + 2)

\* C14: an entry is pre-heat (pre-cool) exactly when the one-step HVAC-off
\* prediction is inside the comfort band, the two-step prediction is below the
\* lower (above the upper) limit and the price of the hour is strictly lower
\* than the price two hours ahead.
C14_PreconditioningIsArbitrage ==
    \A i \in 1..Len(actions) :
        LET p1      == observed[i].t_pred_1
            p2      == observed[i].t_pred_2
            lower   == args.target_temp_c - delta
            upper   == args.target_temp_c + delta
            cheaper == get_price(i - 1) < FuturePrice(i - 1)
            inside  == lower <= p1 /\ p1 <= upper
        IN  /\ actions[i].mode = "pre-heat" <=> (inside /\ p2 < lower /\ cheaper)
            /\ actions[i].mode = "pre-cool" <=> (inside /\ p2 > upper /\ cheaper)

\* C14 witness: a schedule with a pre-cool entry, and an entry left off although
\* the two-step prediction breaches the band, the price not being lower
C14_Witness ==
    /\ Returned
    /\ \E i \in 1..24 : actions[i].mode = "pre-cool"
    /\ \E i \in 1..24 :
          /\ actions[i].mode = "off"
          /\ observed[i].t_pred_2 > args.target_temp_c + delta

\* the COP that applies to a step in the given mode (1e-6)
ApplicableCop(mode, weather) ==
    IF mode \in HeatModes THEN get_cop_heating(hvac, weather.temp_outdoor_c)
    ELSE get_cop_cooling(hvac, weather.temp_outdoor_c)

\* |hvac_heat_w| / (COP * 1000) * 1 h, in 1e-4 kWh
EnergyOfHeat(q_hvac, mode, weather) ==
    IF q_hvac = 0 THEN 0
    ELSE RoundDiv(DivScaled(Abs(q_hvac) * 100, ApplicableCop(mode, weather), 6), 100)

\* C15: at every step the energy charged equals |hvac_heat_w| / (COP * 1000)
\* times the one-hour timestep, hvac_heat_w being the heat
\* simulate_temperature_step injected, and the entry's cost is that energy times
\* the price of the hour (rounded to cents as the entry stores it).
C15_EnergyAndCost ==
    \A i \in 1..Len(actions) :
        LET energy == EnergyOfHeat(observed[i].q_hvac, actions[i].mode, observed[i].weather)
        IN  /\ observed[i].energy_kwh = energy
            /\ actions[i].cost = RoundDiv(energy * get_price(i - 1), 100000)

\* the temperature step i starts from
StartOf(i) == IF i = 1 THEN args.current_indoor_temp_c ELSE observed[i - 1].new_temp

\* C16: step h + 1 starts from the temperature that the one
\* simulate_temperature_step call of step h returned, made with weather sample
\* h and the mode chosen for step h from the temperature step h started from;
\* the HVAC-off predictions leave it unchanged, and entry h's predicted_temp_c
\* is that temperature (to 0.1 degC).
C16_RealStateAdvance ==
    pc \in {"loop", "done"} =>
        /\ current_temp = StartOf(Len(actions) + 1)
        /\ \A i \in 1..Len(actions) :
              /\ observed[i].start_temp = StartOf(i)
              /\ observed[i].new_temp =
                    simulate_temperature_step(house, hvac, ExpectedWeather(i), StartOf(i),
                                              args.target_temp_c, actions[i].mode).new_temp
              /\ actions[i].predicted_temp_c = RoundDiv(observed[i].new_temp, 10)

\* C16 witness: an hour left off whose real temperature differs from the
\* HVAC-off prediction made with the next sample, followed by a heated hour
C16_Witness ==
    /\ Returned
    /\ \E i \in 1..23 :
          /\ actions[i].mode = "off" /\ observed[i].new_temp # observed[i].t_pred_1
          /\ actions[i + 1].mode = "heat"
          /\ observed[i + 1].new_temp # observed[i + 1].start_temp

(***************************************************************************)
(* The backend over the database (database/db.py,                          *)
(* api/hvac_output/indoor_temp_simulation.py).                             *)
(* Windspeed in km/h, solar radiation in W/m^2, house volume in 1e-3 m^3,  *)
(* the heat transfer coefficient in 1e-6 per hour.  Every db function      *)
(* opens its own connection and commits on exit, so each one is a          *)
(* transaction of its own; the route handlers are plain functions, which   *)
(* the server runs on a thread pool.                                       *)
(***************************************************************************)
Users == {"alice", "bob"}
Usernames == Users \cup {"nobody"}

\* get_user_id: the id of a user is its name here, None for an unknown name
get_user_id(username) == IF username \in Users THEN Some(username) ELSE None

\* SELECT sim_inside_temp FROM user_thermostat WHERE user_id = ?
get_simulated_temp(d, user_id) ==
    IF d.user_thermostat[user_id] = None THEN None
    ELSE Some(d.user_thermostat[user_id][1].sim_inside_temp)

\* INSERT ... ON CONFLICT(user_id) DO UPDATE SET sim_inside_temp; a new row
\* takes the column default of target_setpoint
update_simulated_temp(d, user_id, new_temp) ==
    LET row == IF d.user_thermostat[user_id] = None
               THEN [sim_inside_temp |-> new_temp, target_setpoint |-> 2200, hvac_sim |-> None]
               ELSE [d.user_thermostat[user_id][1] EXCEPT !.sim_inside_temp = new_temp]
    IN  [d EXCEPT !.user_thermostat[user_id] = Some(row)]

get_insulation_coefficient(quality) ==
    Get([poor |-> 50000, average |-> 30000, excellent |-> 10000], quality, 30000)

\* the update every request sees the stored temperature through
simulate_indoor_temp(indoor_temp, outdoor_temp, windspeed, solar_radiation, house_volume, insulation_k) ==
    LET k == DivScaled(insulation_k * (50 + windspeed) * 7, Max(house_volume, 350000), 3)
        delta_conduction_convection == (outdoor_temp - indoor_temp) * k
        solar_gain_effect == (solar_radiation * house_volume) \div 20
        internal_gain == 5000000
    IN  indoor_temp
          + RoundDiv(delta_conduction_convection + solar_gain_effect + internal_gain, 1000000)

\* area_sqft * 0.092903 * 2.5
HouseVolume(area_sqft) == area_sqft * 232 + RoundDiv(area_sqft * 2575, 10000)

\* lines 94-128 of run_simulation_step: what the step reads of house and weather
StepInputs(d, username) ==
    LET house_data == IF d.users[username].user_house = None THEN << >>
                      ELSE d.users[username].user_house[1]
        weather_row == d.users[username].user_weather[1]
    IN  [house_volume |-> HouseVolume(Get(house_data, "home_size", 1500)),
         insulation_k |-> get_insulation_coefficient(Get(house_data, "insulation_quality", "average")),
         T_out |-> Get(weather_row, "temperature_2m", 0),
         wind_speed |-> Get(weather_row, "windspeed_10m", 0),
         solar_rad |-> Get(weather_row, "solar_radiation", 0)]

\* lines 132-144: T_next out of the temperature the request read
NextTemp(d, username, stored) ==
    LET T_in == IF stored = None THEN 2100 ELSE stored[1]
        inp == StepInputs(d, username)
    IN  simulate_indoor_temp(T_in, inp.T_out, inp.wind_speed, inp.solar_rad,
                             inp.house_volume, inp.insulation_k)

MaxRequests == 3

SrvHouses == {<< >>, [home_size |-> 3000, insulation_quality |-> "poor"]}
SrvWeathers == {<< >>,
                << [temperature_2m |-> 3000, windspeed_10m |-> 25, solar_radiation |-> 500] >>,
                << [temperature_2m |-> -1000] >>}

\* alice has a thermostat row, bob has none yet
SrvThermostat == [u \in Users |-> IF u = "alice" THEN Some([sim_inside_temp |-> 2000, target_setpoint |-> 2200, hvac_sim |-> None]) ELSE None]

SrvInit ==
    /\ pc = "srv"
    /\ GenIdle
    /\ sim = Idle /\ cop = Idle /\ rc = Idle /\ ExtIdle
    /\ \E h \in [Users -> SrvHouses], w \in [Users -> SrvWeathers] :
         db = [users |-> [u \in Users |->
                            [user_house |-> IF h[u] = << >> THEN None ELSE Some(h[u]),
                             user_weather |-> w[u]]],
               user_thermostat |-> SrvThermostat]
    /\ requests = << >>

\* a request arrives and runs lines 90-128: the user, the house and the first
\* weather row (tables no request writes), or an error response
StepBegin(username) ==
    /\ pc = "srv" /\ Len(requests) < MaxRequests
    /\ requests' = Append(requests,
         [username |-> username, T_in |-> None, T_next |-> None,
          at |-> IF get_user_id(username) = None THEN "error"
                 ELSE IF db.users[username].user_weather = << >> THEN "error"
                 ELSE "fetched"])
    /\ UNCHANGED << genVars, sim, cop, rc, extVars, db >>

\* lines 132-144: get_simulated_temp, then the new temperature, held locally
StepRead(i) ==
    /\ pc = "srv" /\ requests[i].at = "fetched"
    /\ LET T_in == get_simulated_temp(db, requests[i].username)
       IN  requests' = [requests EXCEPT ![i] =
             [@ EXCEPT !.at = "computed", !.T_in = T_in,
                       !.T_next = Some(NextTemp(db, requests[i].username, T_in))]]
    /\ UNCHANGED << genVars, sim, cop, rc, extVars, db >>

\* lines 147-154: update_simulated_temp and the response
StepWrite(i) ==
    /\ pc = "srv" /\ requests[i].at = "computed"
    /\ db' = update_simulated_temp(db, requests[i].username, requests[i].T_next[1])
    /\ requests' = [requests EXCEPT ![i].at = "returned"]
    /\ UNCHANGED << genVars, sim, cop, rc, extVars >>

SrvNext ==
    \/ \E username \in Usernames : StepBegin(username)
    \/ \E i \in 1..Len(requests) : StepRead(i)
    \/ \E i \in 1..Len(requests) : StepWrite(i)

SrvSpec == SrvInit /\ [][SrvNext]_vars

\* the requests of a user that ran to their response
Served(username) == {i \in 1..Len(requests) : requests[i].username = username /\ requests[i].at = "returned"}

AllComplete == \A i \in 1..Len(requests) : requests[i].at \in {"returned", "error"}

\* the stored temperature after n steps of a user run one after the other
RECURSIVE SerialTemp(_, _, _)
SerialTemp(d, username, n) ==
    IF n = 0 THEN get_simulated_temp([d EXCEPT !.user_thermostat = SrvThermostat], username)
    ELSE Some(NextTemp(d, username, SerialTemp(d, username, n - 1)))

\* C17: once every request has completed, each user's stored indoor
\* temperature is the one a serial execution of the user's requests leaves:
\* no update is lost and no user's row is changed by another user's request.
C17_Serializable ==
    (pc = "srv" /\ AllComplete) =>
        \A u \in Users : get_simulated_temp(db, u) = SerialTemp(db, u, Cardinality(Served(u)))

(***************************************************************************)
(* The handlers that create and read a user's thermal state                *)
(* (api/user_data_collection/house_api.py,                                 *)
(* api/hvac_simulation/indoor_temp_simulation.py, database/db.py), each    *)
(* run from its request to its response.                                   *)
(***************************************************************************)
\* SELECT target_setpoint FROM user_thermostat WHERE user_id = ?
get_target_setpoint(d, user_id) ==
    IF d.user_thermostat[user_id] = None THEN None
    ELSE Some(d.user_thermostat[user_id][1].target_setpoint)

\* INSERT ... VALUES (?, 22.0, ?, ...) ON CONFLICT(user_id) DO UPDATE SET
\* target_setpoint: a new row is created with sim_inside_temp 22.0
set_target_setpoint(d, user_id, setpoint) ==
    LET row == IF d.user_thermostat[user_id] = None
               THEN [sim_inside_temp |-> 2200, target_setpoint |-> setpoint, hvac_sim |-> None]
               ELSE [d.user_thermostat[user_id][1] EXCEPT !.target_setpoint = setpoint]
    IN  [d EXCEPT !.user_thermostat[user_id] = Some(row)]

\* UPDATE user_thermostat SET hvac_sim = ? WHERE user_id = ?
set_hvac_sim(d, user_id, hvac_sim) ==
    IF d.user_thermostat[user_id] = None THEN d
    ELSE [d EXCEPT !.user_thermostat[user_id] = Some([@[1] EXCEPT !.hvac_sim = Some(hvac_sim)])]

\* the temperature_2m of the first row of a forecast, None when it has none
FirstReading(weather_rows) ==
    IF weather_rows = << >> \/ "temperature_2m" \notin DOMAIN weather_rows[1] THEN None
    ELSE Some(weather_rows[1].temperature_2m)

\* house_api.py: runs after set_user_house on every house submission
initialize_simulation_temp(d, username) ==
    IF get_simulated_temp(d, username) # None THEN d
    ELSE LET reading == FirstReading(d.users[username].user_weather)
             initial_temp == IF reading = None THEN 7000 ELSE reading[1]
         IN  update_simulated_temp(d, username, initial_temp)

validate_temp(temp) == Max(1500, Min(3000, temp))

\* _get_target_temperature: the explicit target, which it saves, else the
\* saved setpoint of the state read at the start of the request, else the
\* house's personal_comfort, which it saves; the target and the database it
\* leaves
get_target_temperature(d, user_id, state, house_data, explicit_target) ==
    IF explicit_target # None
    THEN [target |-> validate_temp(explicit_target[1]),
          db |-> set_target_setpoint(d, user_id, validate_temp(explicit_target[1]))]
    ELSE IF state.target_setpoint # None
    THEN [target |-> validate_temp(state.target_setpoint[1]), db |-> d]
    ELSE LET target_temp_c == IF "personal_comfort" \in DOMAIN house_data
                              THEN validate_temp(house_data.personal_comfort * 100)
                              ELSE 2200
         IN  [target |-> target_temp_c, db |-> set_target_setpoint(d, user_id, target_temp_c)]

\* get_user_state: the snapshot a run works from
get_user_state(d, username) ==
    [username |-> username,
     house |-> d.users[username].user_house,
     weather |-> d.users[username].user_weather,
     simulated_temp |-> get_simulated_temp(d, username),
     hvac_sim |-> IF d.user_thermostat[username] = None THEN None
                  ELSE d.user_thermostat[username][1].hvac_sim,
     target_setpoint |-> get_target_setpoint(d, username)]

\* get_current_setpoint: the saved setpoint, else the house's personal_comfort,
\* which it saves, else 22.0; the value returned and the database it leaves
get_current_setpoint(d, username) ==
    LET state == get_user_state(d, username)
    IN  IF state.target_setpoint # None
        THEN [target_temp_c |-> state.target_setpoint[1], db |-> d]
        ELSE IF state.house # None /\ "personal_comfort" \in DOMAIN state.house[1]
        THEN LET target_temp_c == Max(1500, Min(3000, state.house[1].personal_comfort * 100))
             IN  [target_temp_c |-> target_temp_c, db |-> set_target_setpoint(d, username, target_temp_c)]
        ELSE [target_temp_c |-> 2200, db |-> d]

\* the range test of update_target_setpoint left out
SetpointInRange_any(target_temp_c) ==
    TRUE

\* 15 <= target_temp_c <= 30
SetpointInRange(target_temp_c) ==
    1500 <= target_temp_c /\ target_temp_c <= 3000

\* the deadband of generate_hvac_schedule for a personal_comfort given in
\* 1e-2 units: DeadbandScaled(100 * c) = Deadband(c)
DeadbandScaled(personal_comfort) ==
    Max(50, Min(200, 150 - RoundDiv(personal_comfort - 500, 10)))

\* requests logged
MaxRuns == 2

UserHouses == {[personal_comfort |-> 24], [personal_comfort |-> 35]}
UserWeathers == {<< >>, << [temperature_2m |-> 500] >>, << [windspeed_10m |-> 25] >>}
UserSetpoints == {1000, 2800}
UserTargets == {None, Some(1000)}
UserAdjustments == {-2000, 2000}

\* the users that send requests; a handler reads and writes only the rows of
\* the user it is called for
UserClients == {"alice"}

\* history: a request of the user has saved a setpoint the user chose
UserSaved(d, username) == [d EXCEPT !.user_saved[username] = TRUE]

\* registered users with no house, no weather and no thermostat row
UserInit ==
    /\ pc = "user"
    /\ GenIdle
    /\ sim = Idle /\ cop = Idle /\ rc = Idle /\ ExtIdle
    /\ db = [users |-> [u \in Users |-> [user_house |-> None, user_weather |-> << >>]],
             user_thermostat |-> [u \in Users |-> None],
             user_saved |-> [u \in Users |-> FALSE]]
    /\ requests = << >>

\* POST /house_variables
save_house_variables(username, house_data) ==
    /\ pc = "user" /\ Len(requests) < MaxRuns
    /\ username \in Users
    /\ db' = initialize_simulation_temp(
               [db EXCEPT !.users[username].user_house = Some(house_data)], username)
    /\ UNCHANGED << genVars, sim, cop, rc, extVars, requests >>

\* POST /user/weather: set_user_weather
save_user_weather(username, data) ==
    /\ pc = "user" /\ Len(requests) < MaxRuns
    /\ username \in Users
    /\ db' = [db EXCEPT !.users[username].user_weather = data]
    /\ UNCHANGED << genVars, sim, cop, rc, extVars, requests >>

\* POST /api/setpoint/{username}; the response is logged with the stored
\* setpoint before and after
update_target_setpoint(username, target_temp_c) ==
    /\ pc = "user" /\ Len(requests) < MaxRuns
    /\ username \in Users
    /\ db' = IF SetpointInRange(target_temp_c)
             THEN UserSaved(set_target_setpoint(db, username, target_temp_c), username)
             ELSE db
    /\ requests' = Append(requests, [username |-> username,
                                     at |-> IF SetpointInRange(target_temp_c) THEN "success" ELSE "rejected",
                                     target_temp_c |-> target_temp_c,
                                     before |-> get_target_setpoint(db, username),
                                     after |-> get_target_setpoint(db', username)])
    /\ UNCHANGED << genVars, sim, cop, rc, extVars >>

\* GET /api/setpoint/{username}
read_current_setpoint(username) ==
    /\ pc = "user" /\ Len(requests) < MaxRuns
    /\ username \in Users
    /\ db' = get_current_setpoint(db, username).db
    /\ UNCHANGED << genVars, sim, cop, rc, extVars, requests >>

\* what a run logs about its target: the explicit target, whether the user
\* had saved a setpoint, the setpoint stored at the start, the house's
\* personal_comfort, the target used and the deadband of the schedule
TargetLog(state, explicit_target, target, generated) ==
    [explicit |-> explicit_target,
     user_saved |-> db.user_saved[state.username],
     saved |-> state.target_setpoint,
     personal_comfort |-> IF "personal_comfort" \in DOMAIN state.house[1]
                          THEN Some(state.house[1].personal_comfort) ELSE None,
     target |-> target,
     delta |-> IF generated THEN Some(DeadbandScaled(target)) ELSE None]

\* run_hvac_ai(username, target_temp_c): the indoor temperature the schedule
\* starts from is logged with the first reading of the forecast the run used;
\* the schedule is generated with personal_comfort = target_temp_c
run_hvac_ai(username, explicit_target) ==
    /\ pc = "user" /\ Len(requests) < MaxRuns
    /\ username \in Users
    /\ LET state == get_user_state(db, username)
       IN  IF state.house = None
           THEN /\ requests' = Append(requests, [username |-> username, at |-> "error",
                                                 T_in |-> None, reading |-> None])
                /\ db' = db
           ELSE LET t  == get_target_temperature(db, username, state, state.house[1], explicit_target)
                    d0 == IF explicit_target # None THEN UserSaved(t.db, username) ELSE t.db
                IN  IF state.weather = << >>
                    THEN /\ requests' = Append(requests, [username |-> username, at |-> "error",
                                                          T_in |-> None, reading |-> None])
                         /\ db' = d0
                    ELSE LET reading == FirstReading(state.weather)
                             indoor_temp == IF state.simulated_temp # None THEN state.simulated_temp[1]
                                            ELSE IF reading = None THEN 2000 ELSE reading[1]
                             d1 == IF state.simulated_temp # None THEN d0
                                   ELSE update_simulated_temp(d0, username, indoor_temp)
                         IN  /\ requests' = Append(requests, [username |-> username, at |-> "returned",
                                                              T_in |-> Some(indoor_temp), reading |-> reading,
                                                              run |-> TargetLog(state, explicit_target, t.target, TRUE)])
                             /\ db' = set_hvac_sim(d1, username,
                                        [current_indoor_temp_c |-> indoor_temp, target_temp_c |-> t.target])
    /\ UNCHANGED << genVars, sim, cop, rc, extVars >>

\* run_simulation_step_with_hvac(username, target_temp_c): generates the
\* schedule when the user has none, then saves the temperature the step
\* returns; new_temp stands for that temperature
run_simulation_step_with_hvac(username, explicit_target, new_temp) ==
    /\ pc = "user" /\ Len(requests) < MaxRuns
    /\ username \in Users
    /\ LET state == get_user_state(db, username)
       IN  IF state.house = None
           THEN /\ requests' = Append(requests, [username |-> username, at |-> "error",
                                                 T_in |-> None, reading |-> None])
                /\ db' = db
           ELSE LET t  == get_target_temperature(db, username, state, state.house[1], explicit_target)
                    d0 == IF explicit_target # None THEN UserSaved(t.db, username) ELSE t.db
                IN  IF state.weather = << >>
                    THEN /\ requests' = Append(requests, [username |-> username, at |-> "error",
                                                          T_in |-> None, reading |-> None])
                         /\ db' = d0
                    ELSE LET reading == FirstReading(state.weather)
                             indoor_temp == IF state.simulated_temp # None THEN state.simulated_temp[1]
                                            ELSE IF reading = None THEN 2000 ELSE reading[1]
                             d1 == IF state.simulated_temp # None THEN d0
                                   ELSE update_simulated_temp(d0, username, indoor_temp)
                             generated == state.hvac_sim = None
                             d2 == IF generated
                                   THEN set_hvac_sim(d1, username, [current_indoor_temp_c |-> indoor_temp,
                                                                    target_temp_c |-> t.target])
                                   ELSE d1
                         IN  /\ requests' = Append(requests, [username |-> username, at |-> "stepped",
                                                              T_in |-> Some(indoor_temp), reading |-> reading,
                                                              run |-> TargetLog(state, explicit_target, t.target, generated)])
                             /\ db' = update_simulated_temp(d2, username, indoor_temp + new_temp)
    /\ UNCHANGED << genVars, sim, cop, rc, extVars >>

\* apply_temporary_adjustment(username, adjustment_c): the adjusted target is
\* saved when the recommendation says apply_now
apply_temporary_adjustment(username, adjustment_c, apply_now) ==
    /\ pc = "user" /\ Len(requests) < MaxRuns
    /\ username \in Users
    /\ LET state == get_user_state(db, username)
       IN  IF state.house = None THEN db' = db
           ELSE LET current_setpoint == get_current_setpoint(db, username)
                    temp_target == Max(1500, Min(3000, current_setpoint.target_temp_c + adjustment_c))
                IN  db' = IF apply_now
                          THEN UserSaved(set_target_setpoint(current_setpoint.db, username, temp_target), username)
                          ELSE current_setpoint.db
    /\ UNCHANGED << genVars, sim, cop, rc, extVars, requests >>

UserNext ==
    \/ \E username \in UserClients, house_data \in UserHouses : save_house_variables(username, house_data)
    \/ \E username \in UserClients, data \in UserWeathers : save_user_weather(username, data)
    \/ \E username \in UserClients, target_temp_c \in UserSetpoints : update_target_setpoint(username, target_temp_c)
    \/ \E username \in UserClients : read_current_setpoint(username)
    \/ \E username \in UserClients, explicit_target \in UserTargets : run_hvac_ai(username, explicit_target)
    \/ \E username \in UserClients, explicit_target \in UserTargets, new_temp \in {0, 50} :
          run_simulation_step_with_hvac(username, explicit_target, new_temp)
    \/ \E username \in UserClients, adjustment_c \in UserAdjustments, apply_now \in BOOLEAN :
          apply_temporary_adjustment(username, adjustment_c, apply_now)

UserSpec == UserInit /\ [][UserNext]_vars

\* the first schedule run of its user that got as far as a schedule
FirstRun(i) ==
    /\ requests[i].at = "returned"
    /\ \A j \in 1..(i - 1) : ~(requests[j].username = requests[i].username /\ requests[j].at = "returned")

\* the indoor defaults of the code: 20 (run_hvac_ai), 21 (run_simulation_step
\* of hvac_output), 22 (the row set_target_setpoint creates)
ComfortableDefaults == {2000, 2100, 2200}

\* C18: whatever house submissions, setpoint updates and weather saves came
\* before, the first schedule run of a user starts from the first outdoor
\* reading of the user's forecast, or from a comfortable default when the
\* forecast has no reading.
C18_InitialTemperature ==
    pc = "user" =>
        \A i \in 1..Len(requests) :
            FirstRun(i) =>
                IF requests[i].reading # None
                THEN requests[i].T_in = requests[i].reading
                ELSE requests[i].T_in[1] \in ComfortableDefaults

\* the requests that determined a target: schedule runs and simulation steps
TargetRuns == {i \in 1..Len(requests) : requests[i].at \in {"returned", "stepped"}}

\* C24: a run uses the explicit target if one is passed, else the setpoint the
\* user saved earlier, else the house's personal_comfort clamped to [15, 30],
\* else 22.0; a user with a personal_comfort who never set a setpoint gets
\* the personal_comfort.
C24_TargetPriority ==
    pc = "user" =>
        \A i \in TargetRuns :
            LET r == requests[i].run
            IN  r.target = IF r.explicit # None THEN Max(1500, Min(3000, r.explicit[1]))
                           ELSE IF r.user_saved THEN Max(1500, Min(3000, r.saved[1]))
                           ELSE IF r.personal_comfort # None
                           THEN Max(1500, Min(3000, r.personal_comfort[1] * 100))
                           ELSE 2200

StoredInRange(username) ==
    get_target_setpoint(db, username) # None =>
        /\ 1500 <= get_target_setpoint(db, username)[1]
        /\ get_target_setpoint(db, username)[1] <= 3000

C26_DeadbandRange ==
    pc = "user" =>
        \A i \in TargetRuns :
            requests[i].run.delta # None =>
                100 <= requests[i].run.delta[1] /\ requests[i].run.delta[1] <= 200

(***************************************************************************)
(* Comfort score of a schedule                                             *)
(***************************************************************************)
\* |temperature after step i - target|, 1e-2 degC
DeviationAfter(i) == Abs(observed[i].new_temp - args.target_temp_c)

MeanDeviation == DivScaled(SumSeq([i \in 1..HOURS |-> DeviationAfter(i)]), HOURS, 2)

\* C19: the comfort_score of a returned schedule is
\* max(0, 100 - 20 * mean over the 24 steps of |temperature after the step -
\* target|), and so lies in [0, 100].
C19_ComfortScore ==
    Returned =>
        /\ Len(observed) = HOURS
        /\ result[1].comfort_score = Max(0, 1000000 - 20 * MeanDeviation)
        /\ result[1].comfort_score >= 0 /\ result[1].comfort_score <= 1000000

\* C19 witness: a schedule whose steps deviate unequally and whose score is
\* strictly inside the range
C19_Witness ==
    /\ Returned
    /\ result[1].comfort_score > 0 /\ result[1].comfort_score < 1000000
    /\ \E i, j \in 1..HOURS : DeviationAfter(i) # DeviationAfter(j)

(***************************************************************************)
(* Overshoot protection of simulate_temperature_step                       *)
(***************************************************************************)
\* C20: every temperature simulate_temperature_step returns in heat or
\* pre-heat mode is at most target + 0.5 degC, and every one it returns in cool
\* or pre-cool mode is at least target - 0.5 degC, whatever the starting
\* temperature, the building and the weather sample.
C20_OvershootProtection ==
    pc = "predict" =>
        \A i \in 2..Len(sim.temps) :
            /\ sim.hvac_mode \in {"heat", "pre-heat"} => sim.temps[i] <= sim.target_temp_c + 50
            /\ sim.hvac_mode \in {"cool", "pre-cool"} => sim.temps[i] >= sim.target_temp_c - 50

\* C20 witness: a pre-heat call from 26.00 degC, above the limit, returns the
\* limit of 22.50 degC
C20_Witness ==
    /\ pc = "predict"
    /\ sim.hvac_mode = "pre-heat"
    /\ Len(sim.temps) >= 2
    /\ sim.temps[1] = 2600 /\ sim.temps[2] = 2250

(***************************************************************************)
(* calc_q_hvac as a function of the distance from the target               *)
(* (specification QSpec)                                                   *)
(***************************************************************************)
CoreIdle == GenIdle /\ sim = Idle /\ cop = Idle /\ rc = Idle /\ SrvIdle

\* largest distance from the target the calls are made at, 1e-2 K
MaxDistance == 450

\* how far indoor_temp_c is from the target on the side the mode works
\* against: below it for the heating modes (and off), above it for cooling
Distance(c) ==
    IF c.mode \in CoolModes THEN c.indoor_temp_c - c.target_temp_c
    ELSE c.target_temp_c - c.indoor_temp_c

\* the call c with what it returns, prev being what the call before returned
QCalled(c, prev) ==
    [c EXCEPT !.value = calc_q_hvac(c.hvac, c.mode, c.indoor_temp_c, c.target_temp_c, c.outdoor_temp_c),
              !.prev = prev]

\* the first call of a chain: one degree past the target
QInit ==
    /\ pc = "q"
    /\ CoreIdle /\ zone = Idle /\ ctl = Idle
    /\ \E house_data \in SimHouseDatas, mode \in Modes, outdoor_temp_c \in {-1000, 3800} :
         qcall = QCalled([at |-> "called",
                          hvac |-> HVACSystem_from_house_data(house_data),
                          mode |-> mode,
                          indoor_temp_c |-> IF mode \in CoolModes THEN 2100 ELSE 2300,
                          target_temp_c |-> 2200,
                          outdoor_temp_c |-> outdoor_temp_c,
                          value |-> None, prev |-> None], None)

\* the same call with the indoor temperature 0.01 K farther on that side
FartherFromTarget ==
    /\ pc = "q" /\ Distance(qcall) < MaxDistance
    /\ qcall' = QCalled([qcall EXCEPT !.indoor_temp_c = IF qcall.mode \in CoolModes THEN @ + 1 ELSE @ - 1],
                        Some(qcall.value))
    /\ UNCHANGED << coreVars, zone, ctl >>

QNext == FartherFromTarget

QSpec == QInit /\ [][QNext]_vars

\* capacity of the system in the direction of the mode, 1e-2 W
CapacityOf(c) == IF c.mode \in CoolModes THEN c.hvac.capacity_cooling_w ELSE c.hvac.capacity_heating_w

\* C21: in a heating (cooling) mode the magnitude of the heat calc_q_hvac
\* delivers does not fall when the indoor temperature moves farther below
\* (above) the target, never exceeds 90% of the capacity, and is zero together
\* with the power draw once the indoor temperature is past the target by the
\* deadband of 0.3 K or more; in mode off both are zero.
C21_ProportionalOutput ==
    pc = "q" =>
        /\ qcall.mode = "off" => qcall.value.q = 0 /\ qcall.value.power = 0
        /\ qcall.mode # "off" =>
              /\ qcall.prev # None => Abs(qcall.value.q) >= Abs(qcall.prev[1].q)
              /\ Abs(qcall.value.q) <= RoundDiv(CapacityOf(qcall) * 900, 10000)
              /\ Distance(qcall) <= -30 => qcall.value.q = 0 /\ qcall.value.power = 0

\* C21 witness: a heating call more than 2 K below the target that delivers
\* more than the call 0.01 K nearer did, and less than the cap
C21_Witness ==
    /\ pc = "q"
    /\ qcall.mode = "pre-heat" /\ Distance(qcall) > 200 /\ qcall.prev # None
    /\ qcall.value.q > qcall.prev[1].q
    /\ qcall.value.power > 0
    /\ qcall.value.q < RoundDiv(CapacityOf(qcall) * 900, 10000)

(***************************************************************************)
(* Part-load curve of the COP functions of model.py                        *)
(***************************************************************************)
\* C27: with all other inputs fixed, the COP of calculate_cop_cooling and of
\* calculate_cop_heating for a heat pump does not fall when the part-load
\* ratio rises by 0.05 up to 0.70, and does not rise when it rises by 0.05
\* from 0.80 or above: the peak lies between 0.7 and 0.8.
C27_PartLoadCurve ==
    (pc = "cop" /\ cop.changed = "part_load_ratio" /\ cop.is_heatpump) =>
        /\ cop.part_load_ratio <= 70 => cop.value >= cop.prev
        /\ cop.part_load_ratio - 5 >= 80 => cop.value <= cop.prev

(***************************************************************************)
(* compute_hvac_intervals of model.py (specification IntervalSpec)         *)
(*   temperatures 1e-2 degC, heat flows W, humidity %, wind m/s,           *)
(*   comfort band 1e-4 K, part load 1e-2, COP 1e-6, MPC cost 1e-6,         *)
(*   energy 1e-3 kWh.  The setpoint and the PMV/PPD columns of a row are   *)
(*   computed from the same inputs and read by nothing else; they are left *)
(*   out.                                                                  *)
(***************************************************************************)
\* lines 589-640: the parameters derived from house_vars
BuildingParameters(house_vars) ==
    LET home_size_m2 == Max(50, Min(500, Get(house_vars, "home_size", 100)))
        occupancy    == Get(house_vars, "occupancy", "home_daytime")
    IN  [desired_temp   |-> Max(1500, Min(2800, Get(house_vars, "personal_comfort", 22) * 100)),
         home_size_m2   |-> home_size_m2,
         \* 1e-1 m3
         home_volume_m3 |-> home_size_m2 * 28,
         hvac_age       |-> Max(0, Min(20, Get(house_vars, "hvac_age", 5))),
         is_heatpump    |-> Get(house_vars, "hvac_type", "furnace") = "heat_pump",
         C_thermal      |-> IntervalParameters(house_vars).C_thermal,
         R_total        |-> IntervalParameters(house_vars).R_total,
         \* 1e-2 m2: 15% of the floor area, within [5, 30% of the floor area]
         window_area_m2 |-> Max(500, Min(home_size_m2 * 30, home_size_m2 * 15)),
         \* 1e-2
         ACH            |-> 50,
         occupancy      |-> occupancy,
         \* 1e-2
         occupancy_band |-> Get([home_daytime |-> 65, away_daytime |-> 130, night |-> 110], occupancy, 100),
         rh_desired     |-> 45]

\* calculate_infiltration_load: rho * ACH_effective * V / 3600 * cp * dT
calculate_infiltration_load(T_outdoor, T_indoor, volume_m3, ACH_per_hour, wind_speed) ==
    LET ACH_effective == ACH_per_hour + 2 * wind_speed
        \* mdot_inf * cp, 1e-2 W/K
        conductance   == RoundDiv(335 * ACH_effective * volume_m3, 10000)
    IN  RoundDiv(conductance * (T_outdoor - T_indoor), 10000)

\* calculate_solar_gain; solar_multiplier in 1e-1, SHGC 0.6
calculate_solar_gain(solar_radiation, window_area, solar_multiplier) ==
    Max(0, RoundDiv(solar_radiation * window_area * 6 * solar_multiplier, 10000))

\* calculate_mpc_cost, weights alpha 0.65 and beta 0.35
calculate_mpc_cost(Q_hvac, COP, T_zone, T_desired, rh, rh_desired) ==
    LET E_cost          == IF COP > 0 THEN Min(100000, DivScaled(Abs(Q_hvac) * 2, COP, 6)) ELSE 0
        temp_dev        == Abs(T_zone - T_desired) * 50
        humidity_dev    == Abs(rh - rh_desired) * 200
        comfort_penalty == Min(100000, temp_dev + humidity_dev \div 2)
    IN  65 * E_cost + 35 * comfort_penalty

\* lines 722-727: comfort band by time of day, 1e-4 K
ComfortBand(hour_of_day, occupancy_band) ==
    IF 6 <= hour_of_day /\ hour_of_day < 10 THEN 55 * occupancy_band
    ELSE IF 10 <= hour_of_day /\ hour_of_day < 22 THEN 100 * occupancy_band
    ELSE 140 * occupancy_band

\* lines 733-746 with both modes leaving through either exit: a heating zone
\* that has become hot goes straight to cooling
ModeTransition_direct(current_mode, T_zone, desired_temp, comfort_band) ==
    IF T_zone * 100 <= desired_temp * 100 - comfort_band THEN "heating"
    ELSE IF T_zone * 100 >= desired_temp * 100 + comfort_band THEN "cooling"
    ELSE "off"

\* lines 730-746: hysteresis and the mode transition logic
ModeTransition(current_mode, T_zone, desired_temp, comfort_band) ==
    LET \* comfort_band - hysteresis, 1e-6 K
        inner == comfort_band * 100 - comfort_band * 45
    IN  IF current_mode = "heating"
        THEN IF T_zone * 10000 >= desired_temp * 10000 - inner THEN "off" ELSE "heating"
        ELSE IF current_mode = "cooling"
        THEN IF T_zone * 10000 <= desired_temp * 10000 + inner THEN "off" ELSE "cooling"
        ELSE IF T_zone * 100 <= desired_temp * 100 - comfort_band THEN "heating"
        ELSE IF T_zone * 100 >= desired_temp * 100 + comfort_band THEN "cooling"
        ELSE "off"

\* line 825 with "at most" for "below 85% of": a free load switches the unit on
HvacOn_notAbove(current_mode, cost_on, cost_off) ==
    current_mode # "off" /\ cost_on <= cost_off

\* lines 811-825: the on/off decision
HvacOn(current_mode, cost_on, cost_off) ==
    current_mode # "off" /\ cost_on * 20 < cost_off * 17

\* one row of the hourly loop (lines 667-858): what it appends and the zone
\* temperature it leaves
IntervalRow(b, current_mode, T_zone, hour_of_day, row) ==
    LET Q_inf       == calculate_infiltration_load(row.temp, T_zone, b.home_volume_m3, b.ACH, row.windspeed_10m)
        solar_multiplier == IF 150 < row.solar /\ row.solar < 400 THEN 7
                            ELSE IF row.solar >= 400 THEN 9 ELSE 3
        Q_solar     == calculate_solar_gain(row.solar, b.window_area_m2, solar_multiplier)
        Q_internal  == IF b.occupancy = "away_daytime" THEN 200
                       ELSE IF b.occupancy = "night" THEN 150 ELSE 500
        T_radiant   == RoundDiv(4 * row.temp + 6 * T_zone, 10)
        comfort_band == ComfortBand(hour_of_day, b.occupancy_band)
        mode        == ModeTransition(current_mode, T_zone, b.desired_temp, comfort_band)
        part_load   == Min(100, Max(50, RoundDiv(Abs(T_zone - b.desired_temp), 5)))
        COP_effective == IF mode = "heating"
                         THEN calculate_cop_heating(row.temp, b.desired_temp, part_load, b.hvac_age, b.is_heatpump)
                         ELSE IF mode = "cooling"
                         THEN calculate_cop_cooling(row.temp, b.desired_temp, part_load, b.hvac_age)
                         ELSE 1000000
        load        == IF mode = "heating" THEN ((b.desired_temp - T_zone) * b.home_size_m2) \div 2
                       ELSE IF mode = "cooling" THEN ((T_zone - b.desired_temp) * b.home_size_m2) \div 2
                       ELSE 0
        Q_hvac      == IF mode = "off" THEN 0 ELSE Max(0, load - Q_solar - Q_internal)
        T_zone_new  == calculate_zone_heat_balance_RC(Float(T_zone), Float(row.temp), Float(T_radiant),
                           Float(Q_internal), Float(Q_solar), Float(Q_hvac), Float(Q_inf),
                           Float(100), Float(b.C_thermal), Float(b.R_total)).value
        cost_on     == calculate_mpc_cost(Q_hvac, COP_effective, T_zone_new, b.desired_temp, row.humidity, b.rh_desired)
        cost_off    == calculate_mpc_cost(0, 1000000, T_zone_new, b.desired_temp, row.humidity, b.rh_desired)
        hvac_on     == HvacOn(mode, cost_on, cost_off)
    IN  [previous_mode |-> current_mode, current_mode |-> mode,
         outdoor_temp |-> row.temp,
         T_zone_prev |-> T_zone, T_zone |-> T_zone_new,
         comfort_band |-> comfort_band, Q_hvac |-> Q_hvac,
         cost_on |-> cost_on, cost_off |-> cost_off,
         status |-> IF hvac_on THEN "on" ELSE "off",
         energy_kwh |-> IF hvac_on /\ COP_effective > 0
                        THEN DivScaled(Q_hvac, COP_effective, 6) ELSE 0]

\* longest weather table
MaxIntervalRows == 5

IntervalHouses ==
    { [personal_comfort |-> 22, home_size |-> 100, insulation_quality |-> "average", hvac_type |-> "heat_pump", hvac_age |-> 5],
      [personal_comfort |-> 24, home_size |-> 250, insulation_quality |-> "poor", occupancy |-> "night"],
      [personal_comfort |-> 10, home_size |-> 40, insulation_quality |-> "excellent", hvac_age |-> 30, occupancy |-> "away_daytime"] }

\* the weather columns a row is read for
IntervalWeathers ==
    { [temp |-> -1000, humidity |-> 80, solar |-> 0, windspeed_10m |-> 6],
      [temp |-> 1800, humidity |-> 45, solar |-> 200, windspeed_10m |-> 0],
      [temp |-> 2200, humidity |-> 50, solar |-> 0, windspeed_10m |-> 2],
      [temp |-> 3800, humidity |-> 60, solar |-> 800, windspeed_10m |-> 1] }

\* lines 645-655: mode off, the zone at the desired temperature, empty lists;
\* the table starts at some hour of the day
IntervalInit ==
    /\ pc = "intervals"
    /\ CoreIdle /\ qcall = Idle /\ ctl = Idle
    /\ \E house_vars \in IntervalHouses, hour_of_day \in {5, 8, 20} :
         zone = [at |-> "loop", house_vars |-> house_vars, hour |-> hour_of_day,
                 current_mode |-> "off",
                 T_zone |-> BuildingParameters(house_vars).desired_temp,
                 rows |-> << >>]

\* one iteration of the hourly loop, on the next row of the table
IntervalStep ==
    /\ pc = "intervals" /\ zone.at = "loop"
    /\ Len(zone.rows) < MaxIntervalRows
    /\ \E row \in IntervalWeathers :
         LET r == IntervalRow(BuildingParameters(zone.house_vars), zone.current_mode,
                              zone.T_zone, zone.hour, row)
         IN  zone' = [zone EXCEPT !.hour = (@ + 1) % 24,
                                  !.current_mode = r.current_mode,
                                  !.T_zone = r.T_zone,
                                  !.rows = Append(@, r)]
    /\ UNCHANGED << coreVars, qcall, ctl >>

\* the table is exhausted: the hourly rows are returned
IntervalReturn ==
    /\ pc = "intervals" /\ zone.at = "loop"
    /\ zone' = [zone EXCEPT !.at = "returned"]
    /\ UNCHANGED << coreVars, qcall, ctl >>

IntervalNext == IntervalStep \/ IntervalReturn

IntervalSpec == IntervalInit /\ [][IntervalNext]_vars

\* C22: the mode of a row differs from the mode of the row before only by
\* off -> heating with T_zone <= target - band, off -> cooling with
\* T_zone >= target + band, heating -> off with T_zone >= target - 0.55 band,
\* cooling -> off with T_zone <= target + 0.55 band (hysteresis 0.45 band);
\* never heating -> cooling or cooling -> heating.
C22_ModeMachine ==
    pc = "intervals" =>
        \A i \in 1..Len(zone.rows) :
            LET r      == zone.rows[i]
                target == BuildingParameters(zone.house_vars).desired_temp
                T      == r.T_zone_prev
                hysteresis == r.comfort_band * 45
            IN  r.current_mode # r.previous_mode =>
                  \/ /\ r.previous_mode = "off" /\ r.current_mode = "heating"
                     /\ T * 100 <= target * 100 - r.comfort_band
                  \/ /\ r.previous_mode = "off" /\ r.current_mode = "cooling"
                     /\ T * 100 >= target * 100 + r.comfort_band
                  \/ /\ r.previous_mode = "heating" /\ r.current_mode = "off"
                     /\ T * 10000 >= target * 10000 - (r.comfort_band * 100 - hysteresis)
                  \/ /\ r.previous_mode = "cooling" /\ r.current_mode = "off"
                     /\ T * 10000 <= target * 10000 + (r.comfort_band * 100 - hysteresis)

\* C22 witness: a table whose rows go off -> heating -> off -> cooling
C22_Witness ==
    /\ pc = "intervals" /\ Len(zone.rows) >= 4
    /\ \E i \in 1..(Len(zone.rows) - 3) :
          /\ zone.rows[i].previous_mode = "off" /\ zone.rows[i].current_mode = "heating"
          /\ zone.rows[i + 1].current_mode = "off"
          /\ zone.rows[i + 2].current_mode = "cooling"

\* C28: the cost with the HVAC load is never below 85% of the cost with zero
\* load at the same zone temperature and humidity, so every row has status off
\* and energy 0, also the rows whose mode is heating or cooling and whose load
\* went into the zone temperature.
C28_NeverOn ==
    pc = "intervals" =>
        \A i \in 1..Len(zone.rows) :
            /\ zone.rows[i].cost_on * 20 >= zone.rows[i].cost_off * 17
            /\ zone.rows[i].status = "off"
            /\ zone.rows[i].energy_kwh = 0

\* C28 witness: a heating row and a cooling row, each with a positive load
\* applied to the zone, a cost above the zero-load cost, and status off
C28_Witness ==
    /\ pc = "intervals"
    /\ \E i, j \in 1..Len(zone.rows) :
          /\ zone.rows[i].current_mode = "heating" /\ zone.rows[j].current_mode = "cooling"
          /\ \A k \in {i, j} :
                /\ zone.rows[k].Q_hvac > 0
                /\ zone.rows[k].T_zone # zone.rows[k].T_zone_prev
                /\ zone.rows[k].cost_on > zone.rows[k].cost_off
                /\ zone.rows[k].status = "off"

(***************************************************************************)
(* generate_schedule of model_testing/model.py, one user                   *)
(* (specification MinuteSpec)                                              *)
(*   temperatures 1e-3 degC, heat flows 1e-3 W, u_val 1e-1 W/m2K,          *)
(*   c_home J/K, one step per minute of the resampled weather table        *)
(***************************************************************************)
MIN_RUN_TIME == 15
MIN_OFF_TIME == 10

\* SmartHVACModel.__init__; the setpoint is random.randint(20, 24)
SmartHVACModel(house_params, setpoint) ==
    LET area    == Get(house_params, "home_size", 100)
        quality == Get(house_params, "insulation_quality", "average")
    IN  [area     |-> area,
         setpoint |-> setpoint,
         u_val    |-> IF quality = "poor" THEN 15 ELSE IF quality = "excellent" THEN 2 ELSE 5,
         \* area * 2.5 * AIR_DENSITY * CP_AIR * 5
         c_home   |-> area * 15389 + RoundDiv(area * 625, 10000)]

\* SmartHVACModel.calculate_next_temp
calculate_next_temp(model, t_in, t_out, solar, hvac_mode) ==
    LET q_cond  == (model.u_val * model.area * (t_out - t_in)) \div 10
        q_solar == model.area * 75 * solar
        q_hvac  == IF hvac_mode \in {"COOL", "PRE-COOL"} THEN -3500000
                   ELSE IF hvac_mode \in {"HEAT", "PRE-HEAT"} THEN 3500000 ELSE 0
    IN  t_in + RoundDiv((q_cond + q_solar + q_hvac) * 60, model.c_home)

\* row i (from 0) of the table resampled to one minute: linear between the
\* two hourly rows
WeatherAt(w, i) ==
    [temperature_2m  |-> w.t0 + RoundDiv((w.t1 - w.t0) * i, 60),
     solar_radiation |-> w.s0 + RoundDiv((w.s1 - w.s0) * i, 60)]

\* the prediction loop: rows k, k + 5, ... below the limit, HVAC off
RECURSIVE Predict(_, _, _, _, _)
Predict(model, w, pred_temp, k, look_ahead_limit) ==
    IF k >= look_ahead_limit THEN pred_temp
    ELSE Predict(model, w,
                 calculate_next_temp(model, pred_temp, WeatherAt(w, k).temperature_2m,
                                     WeatherAt(w, k).solar_radiation, "OFF"),
                 k + 5, look_ahead_limit)

\* the lock with no minimum times
IsLocked_never(current_mode, minutes_in_current_state) == FALSE

\* is_locked
IsLocked(current_mode, minutes_in_current_state) ==
    \/ current_mode # "OFF" /\ minutes_in_current_state < MIN_RUN_TIME
    \/ current_mode = "OFF" /\ minutes_in_current_state < MIN_OFF_TIME

\* new_mode of an unlocked step; DEADBAND 0.5; temp_now is current_temp
NewMode(model, current_mode, temp_now, pred_temp) ==
    IF current_mode = "OFF"
    THEN IF temp_now > model.setpoint + 500 THEN "COOL"
         ELSE IF temp_now < model.setpoint - 500 THEN "HEAT"
         ELSE IF pred_temp > model.setpoint + 500 + 500 THEN "PRE-COOL"
         ELSE IF pred_temp < model.setpoint - 500 - 500 THEN "PRE-HEAT"
         ELSE current_mode
    ELSE IF current_mode \in {"COOL", "PRE-COOL"} /\ temp_now <= model.setpoint THEN "OFF"
    ELSE IF current_mode \in {"HEAT", "PRE-HEAT"} /\ temp_now >= model.setpoint THEN "OFF"
    ELSE current_mode

\* rows of the one-minute weather table
MaxMinutes == 60

MinuteHouses ==
    { [home_size |-> 50, insulation_quality |-> "poor"],
      [home_size |-> 100],
      [home_size |-> 150, insulation_quality |-> "excellent"] }

\* the two hourly rows the table is resampled from
MinuteWeathers ==
    { [t0 |-> 35000, t1 |-> 35000, s0 |-> 0, s1 |-> 0],
      [t0 |-> -10000, t1 |-> -4000, s0 |-> 0, s1 |-> 0],
      [t0 |-> 18000, t1 |-> 30000, s0 |-> 0, s1 |-> 600],
      [t0 |-> 21000, t1 |-> 21000, s0 |-> 0, s1 |-> 0] }

\* before the loop: at the setpoint, mode OFF, no minute in that state
MinuteInit ==
    /\ pc = "minutes"
    /\ CoreIdle /\ qcall = Idle /\ zone = Idle
    /\ \E house_params \in MinuteHouses, setpoint \in {20000, 24000}, w \in MinuteWeathers :
         ctl = [at |-> "loop", model |-> SmartHVACModel(house_params, setpoint), weather |-> w,
                i |-> 0, current_temp |-> setpoint, current_mode |-> "OFF",
                minutes_in_current_state |-> 0, modes |-> << >>]

\* one iteration of "for i in range(len(df))"; modes logs the mode each step
\* ran the physics with
MinuteStep ==
    /\ pc = "minutes" /\ ctl.at = "loop" /\ ctl.i < MaxMinutes
    /\ LET row       == WeatherAt(ctl.weather, ctl.i)
           pred_temp == Predict(ctl.model, ctl.weather, ctl.current_temp, ctl.i,
                                Min(ctl.i + 60, MaxMinutes))
           new_mode  == IF IsLocked(ctl.current_mode, ctl.minutes_in_current_state)
                        THEN ctl.current_mode
                        ELSE NewMode(ctl.model, ctl.current_mode, ctl.current_temp, pred_temp)
           changed   == new_mode # ctl.current_mode \/ ctl.i = MaxMinutes - 1
       IN  ctl' = [ctl EXCEPT !.i = @ + 1,
                              !.current_temp = calculate_next_temp(ctl.model, @, row.temperature_2m,
                                                                   row.solar_radiation, new_mode),
                              !.current_mode = new_mode,
                              !.minutes_in_current_state = IF changed THEN 1 ELSE @ + 1,
                              !.modes = Append(@, new_mode)]
    /\ UNCHANGED << coreVars, qcall, zone >>

\* the table is exhausted
MinuteReturn ==
    /\ pc = "minutes" /\ ctl.at = "loop" /\ ctl.i = MaxMinutes
    /\ ctl' = [ctl EXCEPT !.at = "returned"]
    /\ UNCHANGED << coreVars, qcall, zone >>

MinuteNext == MinuteStep \/ MinuteReturn

MinuteSpec == MinuteInit /\ [][MinuteNext]_vars

\* the mode in force before step i
ModeBefore(i) == IF i = 1 THEN "OFF" ELSE ctl.modes[i - 1]

\* C23: a step that changes the mode to a non-OFF mode is followed by at least
\* 14 more steps in that mode (15 consecutive steps), and a step that changes
\* it to OFF by at least 9 more OFF steps (10 consecutive steps), as far as
\* the table goes.
C23_MinimumTimes ==
    pc = "minutes" =>
        \A i \in 1..Len(ctl.modes) :
            ctl.modes[i] # ModeBefore(i) =>
                LET hold == IF ctl.modes[i] = "OFF" THEN MIN_OFF_TIME ELSE MIN_RUN_TIME
                IN  \A j \in i..Min(i + hold - 1, Len(ctl.modes)) : ctl.modes[j] = ctl.modes[i]

\* C23 witness: a cooling run of exactly 15 steps, then an OFF period of
\* exactly 10 steps followed by a change of mode
C23_Witness ==
    /\ pc = "minutes"
    /\ \E i \in 1..Len(ctl.modes) :
          /\ ctl.modes[i] = "COOL" /\ ModeBefore(i) = "OFF"
          /\ Len(ctl.modes) >= i + 25
          /\ ctl.modes[i + 14] = "COOL" /\ ctl.modes[i + 15] = "OFF"
          /\ ctl.modes[i + 24] = "OFF" /\ ctl.modes[i + 25] # "OFF"

(***************************************************************************)
(* simulate_temperature_step: an HVAC mode against mode off                *)
(***************************************************************************)
\* what step i of the chain would have returned with the HVAC off
OffTemp(i) ==
    simulate_temperature_step(sim.house, sim.hvac, sim.weather_forecast[i],
                              sim.temps[i], sim.target_temp_c, "off").new_temp

\* C29: for the same house, system, weather sample, starting temperature and
\* target, a step in heat or pre-heat mode never returns a lower temperature
\* than the step in mode off, and a step in cool or pre-cool mode never a
\* higher one.
C29_HeatingNeverCools ==
    pc = "predict" =>
        \A i \in 1..Len(sim.weather_forecast) :
            /\ sim.hvac_mode \in {"heat", "pre-heat"} => sim.temps[i + 1] >= OffTemp(i)
            /\ sim.hvac_mode \in {"cool", "pre-cool"} => sim.temps[i + 1] <= OffTemp(i)

(***************************************************************************)
(* Where in the day generate_hvac_schedule pre-conditions                  *)
(***************************************************************************)
\* the hours whose price is strictly lower than the price two hours later
CheaperHours == {h \in 0..21 : get_price(h) < get_price(h + 2)}

\* C30: a pre-heat or pre-cool entry occurs only at an hour whose price is
\* strictly lower than the price two hours later, that is at hours 5, 6, 14
\* and 15 only, never at hours 22 and 23; the entry of hour 23 is decided from
\* the indoor temperature at the start of that hour alone.
C30_PreconditioningHours ==
    /\ CheaperHours = {5, 6, 14, 15}
    /\ \A i \in 1..Len(actions) :
          /\ actions[i].mode \in {"pre-heat", "pre-cool"} => (i - 1) \in CheaperHours
          /\ i = 24 =>
                actions[i].mode = IF observed[i].start_temp < args.target_temp_c - delta THEN "heat"
                                  ELSE IF observed[i].start_temp > args.target_temp_c + delta THEN "cool"
                                  ELSE "off"

\* C30 witness: a returned schedule with a pre-conditioning entry, whose last
\* hour starts outside the comfort band and runs the HVAC
C30_Witness ==
    /\ Returned
    /\ \E i \in 1..24 : actions[i].mode \in {"pre-heat", "pre-cool"}
    /\ actions[24].mode \in {"heat", "cool"}

====
